---------------------------- MODULE Spec2Model ----------------------------
(***************************************************************************)
(* Model of the DNS-log activity classifiers of nextdns-report-viewer:     *)
(* the domain pattern matcher, the temporal correlator, the WhatsApp and   *)
(* Facebook classifiers, the relationship-concern scorer, the per-minute   *)
(* aggregation and the reels-masking post-pass (utils/csv-parser and       *)
(* types/dns-log).  Timestamps are milliseconds, as Date.getTime().        *)
(***************************************************************************)
EXTENDS Integers, Sequences, FiniteSets, TLC

VARIABLES
    windowEntries,   \* the entries handed to a classifier (one window)
    activity,        \* the result of the last classifier call on windowEntries
    domains,         \* the distinct domains handed to detectRelationshipConcerns
    concerns,        \* the result of detectRelationshipConcerns(domains)
    entries,         \* the log handed to calculateTimeWindowStats
    stats            \* the records calculateTimeWindowStats returned

vars == <<windowEntries, activity, domains, concerns, entries, stats>>

\* No call has been made yet on the current input.
NoResult == [fn |-> "none"]

(***************************************************************************)
(* Strings.  String.prototype.includes is substring search on characters.  *)
(***************************************************************************)
Range(s) == {s[i] : i \in DOMAIN s}

StrIncludes(d, p) ==
    \E i \in 1..(Len(d) - Len(p) + 1) : SubSeq(d, i, i + Len(p) - 1) = p

(***************************************************************************)
(* Pattern tables (types/dns-log).                                         *)
(***************************************************************************)
WHATSAPP_ACTIVITY_INDICATORS ==
    [signalling    |-> <<"g.whatsapp.net", "graph.whatsapp.com", "dit.whatsapp.net">>,
     mediaUpload   |-> <<"mmg.whatsapp.net">>,
     mediaDownload |-> <<"media-", ".cdn.whatsapp.net", "mmx-ds.cdn.whatsapp.net">>,
     calls         |-> <<"dit.whatsapp.net", "dyn.whatsapp.net", "relay.whatsapp.net">>,
     core          |-> <<"whatsapp.net", "whatsapp.com">>,
     apns          |-> <<"courier", "push.apple.com">>,
     background    |-> <<"static.whatsapp.net", "edge-mqtt.whatsapp.net",
                         "edge-mqtt.facebook.com">>]

FACEBOOK_ACTIVITY_INDICATORS ==
    [calls         |-> <<"external.xx.fbcdn.net">>,
     textSend      |-> <<"pm.facebook.com", "web.facebook.com">>,
     messaging     |-> <<"edge-mqtt.facebook.com", "gateway.facebook.com",
                         "chat-e2ee.facebook.com">>,
     mediaUpload   |-> <<"rupload.facebook.com">>,
     mediaDownload |-> <<"scontent.", ".fbcdn.net", ".fbsbx.com">>,
     api           |-> <<"star.c10r.facebook.com", "star.fallback.c10r.facebook.com",
                         "graph.facebook.com", "graph.instagram.com">>,
     core          |-> <<"facebook.com", "messenger.com", "instagram.com">>,
     background    |-> <<"www.facebook.com", "static.xx.fbcdn.net",
                         "connect.facebook.net">>,
     reelsVideo    |-> <<"static-", ".xx.fbcdn.net", "external-", ".xx.fbcdn.net",
                         "-netseer-ipaddr-assoc.", "oculuscdn.com",
                         "securecdn.oculus.com", "cdninstagram.com">>]

RELATIONSHIP_CONCERN_INDICATORS ==
    [datingApps |->
        <<"tinder.com", "bumble.com", "hinge.co", "match.com", "eharmony.com",
          "okcupid.com", "pof.com", "zoosk.com", "badoo.com", "happn.com",
          "grindr.com", "scruff.com", "jackd.com", "hornet.com",
          "adultfriendfinder.com", "ashley-madison.com", "seeking.com",
          "raya.co", "coffeemeetsbagel.com", "theinner-circle.com",
          "elitesingles.com", "silversingles.com", "ourtime.com",
          "christianmingle.com", "jdate.com", "blackpeoplemeet.com",
          "loveandseek.com", "farmersonly.com", "militarycupid.com">>,
     alternativeMessaging |->
        <<"telegram.org", "signal.org", "discord.com", "slack.com",
          "snapchat.com", "kik.com", "viber.com", "line.me",
          "wechat.com", "qq.com", "kakaotalk.com", "threema.ch",
          "wickr.com", "element.io", "session.im", "briar.app",
          "jami.net", "riot.im", "matrix.org", "keybase.io",
          "dust.com", "confide.com", "coverme.ws", "silent-phone.com">>,
     videoCalling |->
        <<"zoom.us", "skype.com", "teams.microsoft.com", "meet.google.com",
          "webex.com", "gotomeeting.com", "bluejeans.com", "jitsi.org",
          "whereby.com", "appear.in", "bigbluebutton.org", "jami.net",
          "facetime.apple.com", "duo.google.com", "allo.google.com">>,
     socialMessaging |->
        <<"twitter.com", "x.com", "linkedin.com", "reddit.com",
          "pinterest.com", "tumblr.com", "twitch.tv", "onlyfans.com",
          "chaturbate.com", "cam4.com", "myfreecams.com", "streamate.com",
          "flirt4free.com", "camsoda.com", "bongacams.com", "stripchat.com">>,
     anonymousPlatforms |->
        <<"yolo.live", "sarahah.com", "tellonym.me", "curiouscat.me",
          "ask.fm", "lipsi.co", "sendit.gg", "ngl.link",
          "whisper.sh", "anonymous.com", "confession.co", "secrets.co">>,
     excludePatterns |->
        <<"chat.google.com", "hangouts.google.com", "mail.google.com",
          "accounts.google.com", "apis.google.com", "fonts.google.com",
          "maps.google.com">>]


(***************************************************************************)
(* Inputs of the model: the domains and timestamps the windows are built   *)
(* from.                                                                   *)
(***************************************************************************)
APNS_DOMAIN    == "1-courier.push.apple.com"
NETSEER_DOMAIN == "4bea6f62-netseer-ipaddr-assoc.xy.fbcdn.net"

\* Domains of the general classifier windows.
WindowDomains ==
    {"g.whatsapp.net", "mmg.whatsapp.net", "media-jnb2-1.cdn.whatsapp.net",
     "graph.whatsapp.com", "dit.whatsapp.net", APNS_DOMAIN,
     "edge-mqtt.facebook.com", "rupload.facebook.com", NETSEER_DOMAIN,
     "www.facebook.com", "connect.facebook.net", "media-exp1.licdn.com"}

\* Timestamps (ms) of the general classifier windows: T and T+7s.
WindowTimes == {0, 7000}

\* Longest window the general specification builds.
MaxWindow == 3

\* Domains of the Facebook windows (app launch, upload, text send).
LaunchQuartet ==
    {"gateway.facebook.com", "graph.facebook.com", "edge-mqtt.facebook.com",
     "www.facebook.com"}

\* The Facebook windows list their domains in this order: the push anchor and the
\* upload first, the messaging and launch domains next, the CDN hosts last.
FacebookWindowOrder ==
    <<APNS_DOMAIN, "rupload.facebook.com", "chat-e2ee.facebook.com",
      "edge-mqtt.facebook.com", "graph.facebook.com", "gateway.facebook.com",
      "www.facebook.com", "pm.facebook.com", "web.facebook.com", "api.facebook.com",
      "star.fallback.c10r.facebook.com", "lookaside.facebook.com",
      "scontent-jnb2-1.xx.fbcdn.net", NETSEER_DOMAIN, "static-jnb2-1.xx.fbcdn.net">>

FacebookDomains == Range(FacebookWindowOrder)

\* Milliseconds between consecutive entries of a Facebook window: one burst, or an
\* entry every three seconds.
WindowGaps == {0, 3000}

\* The domain a Facebook window queries again, and how often at most.
RepeatDomains == {"graph.facebook.com"}

MaxRepeat == 2

\* Domains handed to the relationship-concern scorer besides the listed ones: two
\* excluded Google services (one of them a host name that also contains a video-calling
\* pattern), a second host of a listed dating app and a listed social platform.
ExtraConcernDomains ==
    {"mail.google.com", "meet.google.com.accounts.google.com", "www.tinder.com", "x.com"}

\* Extra domains added to a window of the relationship-concern scorer.
MaxExtraDomains == 1

ConcernDomains ==
    Range(RELATIONSHIP_CONCERN_INDICATORS.datingApps)
    \cup Range(RELATIONSHIP_CONCERN_INDICATORS.alternativeMessaging)
    \cup Range(RELATIONSHIP_CONCERN_INDICATORS.videoCalling)
    \cup ExtraConcernDomains

\* Domains of the logs handed to calculateTimeWindowStats, in the order a log lists the
\* entries of one timestamp.
LogDomainOrder ==
    <<APNS_DOMAIN, "g.whatsapp.net", "mmg.whatsapp.net", "rupload.facebook.com",
      NETSEER_DOMAIN>>

LogDomains == Range(LogDomainOrder)

\* Domains of the logs that mix messaging traffic with relationship-concern domains,
\* and the minutes at which those logs have entries (09:55, 09:56, 09:58).
MixedLogOrder ==
    <<APNS_DOMAIN, "mmg.whatsapp.net", "rupload.facebook.com", NETSEER_DOMAIN,
      "www.tinder.com", "webex.com">>

MixedLogDomains == Range(MixedLogOrder)

MixedLogMinutes == {595, 596, 598}

\* Position of a domain in the listing order of a log.
LogRank(d) ==
    LET order == LogDomainOrder \o MixedLogOrder
    IN CHOOSE i \in DOMAIN order : order[i] = d /\ \A j \in 1..(i - 1) : order[j] # d

\* Minutes of the day 2025-09-13 at which the log has entries: 09:55, 09:56, 09:58,
\* 10:02 and 10:06.
LogMinutes == {595, 596, 598, 602, 606}

\* Longest log handed to calculateTimeWindowStats.
MaxLog == 5

DomainUniverse == WindowDomains \cup FacebookDomains \cup ConcernDomains \cup LogDomains

PatternUniverse ==
    UNION {Range(WHATSAPP_ACTIVITY_INDICATORS[k]) : k \in DOMAIN WHATSAPP_ACTIVITY_INDICATORS}
    \cup UNION {Range(FACEBOOK_ACTIVITY_INDICATORS[k]) : k \in DOMAIN FACEBOOK_ACTIVITY_INDICATORS}
    \cup UNION {Range(RELATIONSHIP_CONCERN_INDICATORS[k]) :
                    k \in DOMAIN RELATIONSHIP_CONCERN_INDICATORS}
    \cup {"courier", "push.apple.com", "rupload.facebook.com", "edge-mqtt.facebook.com",
          "media-", "cdn.whatsapp.net", "dit.whatsapp.net", "graph.whatsapp.com",
          "static.whatsapp.net", "mmg.whatsapp.net", "apple.com", "icloud.com",
          "-netseer-ipaddr-assoc.", "static-", ".xx.fbcdn.net", "external-",
          "oculuscdn.com", "securecdn.oculus.com", "facebook", "instagram",
          "chat-e2ee.facebook.com", "www.facebook.com", "web.facebook.com",
          "m.facebook.com", "gateway.facebook.com", "graph.facebook.com",
          "api.facebook.com", "star.fallback.c10r.facebook.com",
          "lookaside.facebook.com", "pm.facebook.com", "scontent-", "fbcdn.net"}

\* The patterns each domain of the model includes, computed once by substring search.
IncludedPatterns == [d \in DomainUniverse |-> {p \in PatternUniverse : StrIncludes(d, p)}]

\* domain.includes(pattern)
Includes(d, p) ==
    IF d \in DomainUniverse /\ p \in PatternUniverse
    THEN p \in IncludedPatterns[d]
    ELSE StrIncludes(d, p)

(***************************************************************************)
(* Helpers of utils/csv-parser.                                            *)
(***************************************************************************)
\* Array.prototype.filter is SelectSeq.

\* One step of a stable insertion sort: e goes after every entry not later than it.
RECURSIVE InsertByTimestamp(_, _)
InsertByTimestamp(s, e) ==
    IF s = <<>> THEN <<e>>
    ELSE IF Head(s).parsedTimestamp <= e.parsedTimestamp
         THEN <<Head(s)>> \o InsertByTimestamp(Tail(s), e)
         ELSE <<e>> \o s

\* [...windowEntries].sort((a, b) => a.parsedTimestamp - b.parsedTimestamp), stable
RECURSIVE SortByTimestamp(_)
SortByTimestamp(s) ==
    IF s = <<>> THEN <<>>
    ELSE InsertByTimestamp(SortByTimestamp(SubSeq(s, 1, Len(s) - 1)), s[Len(s)])

findEntriesInWindow(es, targetTime, beforeSeconds, afterSeconds) ==
    LET InWindow(e) ==
            /\ e.parsedTimestamp - targetTime >= -(beforeSeconds * 1000)
            /\ e.parsedTimestamp - targetTime <= afterSeconds * 1000
    IN SelectSeq(es, InWindow)

MatchesAny(d, patterns) == \E i \in DOMAIN patterns : Includes(d, patterns[i])

hasDomainPattern(es, patterns) ==
    \E i \in DOMAIN es : MatchesAny(es[i].domain, patterns)

countDomainPattern(es, patterns) ==
    LET Hit(e) == MatchesAny(e.domain, patterns)
    IN Len(SelectSeq(es, Hit))

IsAPNs(e) == Includes(e.domain, "courier") /\ Includes(e.domain, "push.apple.com")

detectAPNs(es) == SelectSeq(es, IsAPNs)

IsSignalling(e) == MatchesAny(e.domain, WHATSAPP_ACTIVITY_INDICATORS.signalling)

IsWhatsAppMediaCDN(e) == Includes(e.domain, "media-") /\ Includes(e.domain, "cdn.whatsapp.net")

IsNetSeer(e) == Includes(e.domain, "-netseer-ipaddr-assoc.")

hasNetSeerCDN(es) == \E i \in DOMAIN es : IsNetSeer(es[i])

(***************************************************************************)
(* detectWhatsAppActivity.  Each rule takes the sorted entries and the     *)
(* result so far and returns the result after the rule.                    *)
(***************************************************************************)
WhatsAppNothing ==
    [isTextMessage |-> FALSE, isMediaTransfer |-> FALSE, isVoiceCall |-> FALSE,
     isVideoCall |-> FALSE, activityScore |-> 0, callDirection |-> ""]

IsFacebookInterference(e) ==
    Includes(e.domain, "rupload.facebook.com") \/ Includes(e.domain, "edge-mqtt.facebook.com")

\* Mutant of SignallingNearAnchor: the window after the anchor is 10s, not 5s.
SignallingNearAnchor_Wide(es, apnsEntry) ==
    SelectSeq(findEntriesInWindow(es, apnsEntry.parsedTimestamp, 10, 10), IsSignalling)

\* The signalling entries an anchor correlates with: -10s to +5s around it.
SignallingNearAnchor(es, apnsEntry) ==
    SelectSeq(findEntriesInWindow(es, apnsEntry.parsedTimestamp, 10, 5), IsSignalling)

\* Mutant of WaIncomingCall: only the first anchor of the window is tried.
WaIncomingCall_FirstAnchorOnly(es, r) ==
    LET apnsEntries == detectAPNs(es)
        Decisive(a) ==
            /\ Len(SignallingNearAnchor(es, a)) > 0
            /\ Len(SelectSeq(findEntriesInWindow(es, a.parsedTimestamp, 10, 15),
                          IsFacebookInterference)) = 0
    IN IF Len(apnsEntries) > 0 /\ Decisive(apnsEntries[1])
       THEN [r EXCEPT !.isVoiceCall = TRUE, !.callDirection = "incoming",
                      !.activityScore = @ + 8]
       ELSE r

\* 1. incoming call: an anchor with signalling near it and no Facebook interference
WaIncomingCall(es, r) ==
    LET apnsEntries == detectAPNs(es)
        Decisive(a) ==
            /\ Len(SignallingNearAnchor(es, a)) > 0
            /\ Len(SelectSeq(findEntriesInWindow(es, a.parsedTimestamp, 10, 15),
                          IsFacebookInterference)) = 0
    IN IF \E i \in DOMAIN apnsEntries : Decisive(apnsEntries[i])
       THEN [r EXCEPT !.isVoiceCall = TRUE, !.callDirection = "incoming",
                      !.activityScore = @ + 8]
       ELSE r

\* Mutant of WaVoiceNote: the rule also runs after the call rule has fired.
WaVoiceNote_NoCallGuard(es, r) ==
    LET signallingEntries == SelectSeq(es, IsSignalling)
        laterMediaCDN(se) ==
            LET Later(e) == IsWhatsAppMediaCDN(e) /\ e.parsedTimestamp > se.parsedTimestamp
            IN SelectSeq(findEntriesInWindow(es, se.parsedTimestamp, 0, 120), Later)
        precedingAPNs(se) == SelectSeq(findEntriesInWindow(es, se.parsedTimestamp, 15, 0), IsAPNs)
        hits == {i \in DOMAIN signallingEntries : Len(laterMediaCDN(signallingEntries[i])) > 0}
    IN IF hasDomainPattern(es, WHATSAPP_ACTIVITY_INDICATORS.signalling) /\ hits # {}
       THEN LET first == signallingEntries[CHOOSE i \in hits : \A j \in hits : i <= j]
                incoming == Len(precedingAPNs(first)) > 0
            IN [r EXCEPT !.isMediaTransfer = TRUE,
                         !.callDirection = IF incoming THEN "incoming" ELSE "outgoing",
                         !.activityScore = @ + (IF incoming THEN 8 ELSE 6)]
       ELSE r

\* 2. voice note: the first signalling entry that a media-CDN fetch follows within 120s
WaVoiceNote(es, r) ==
    LET signallingEntries == SelectSeq(es, IsSignalling)
        laterMediaCDN(se) ==
            LET Later(e) == IsWhatsAppMediaCDN(e) /\ e.parsedTimestamp > se.parsedTimestamp
            IN SelectSeq(findEntriesInWindow(es, se.parsedTimestamp, 0, 120), Later)
        precedingAPNs(se) == SelectSeq(findEntriesInWindow(es, se.parsedTimestamp, 15, 0), IsAPNs)
        hits == {i \in DOMAIN signallingEntries : Len(laterMediaCDN(signallingEntries[i])) > 0}
    IN IF ~r.isVoiceCall /\ hasDomainPattern(es, WHATSAPP_ACTIVITY_INDICATORS.signalling)
          /\ hits # {}
       THEN LET first == signallingEntries[CHOOSE i \in hits : \A j \in hits : i <= j]
                incoming == Len(precedingAPNs(first)) > 0
            IN [r EXCEPT !.isMediaTransfer = TRUE,
                         !.callDirection = IF incoming THEN "incoming" ELSE "outgoing",
                         !.activityScore = @ + (IF incoming THEN 8 ELSE 6)]
       ELSE r

\* Mutant of WaTextMessage: signalling alone counts as a text message.
WaTextMessage_KeepAlive(es, r) ==
    IF r.isVoiceCall \/ r.isMediaTransfer THEN r
    ELSE IF hasDomainPattern(es, WHATSAPP_ACTIVITY_INDICATORS.signalling)
         THEN [r EXCEPT !.isTextMessage = TRUE, !.activityScore = @ + 4]
         ELSE r

\* 3. text message and conversation patterns
WaTextMessage(es, r) ==
    LET hasSignalling  == hasDomainPattern(es, WHATSAPP_ACTIVITY_INDICATORS.signalling)
        hasMediaUpload == hasDomainPattern(es, WHATSAPP_ACTIVITY_INDICATORS.mediaUpload)
        hasAPNsActivity  == Len(detectAPNs(es)) > 0
        hasDitActivity   == hasDomainPattern(es, <<"dit.whatsapp.net">>)
        hasGraphActivity == hasDomainPattern(es, <<"graph.whatsapp.com">>)
    IN IF r.isVoiceCall \/ r.isMediaTransfer THEN r
       ELSE IF hasAPNsActivity /\ hasSignalling
            THEN [r EXCEPT !.isTextMessage = TRUE, !.activityScore = @ + 7]
       ELSE IF hasDitActivity /\ hasGraphActivity /\ hasSignalling
            THEN [r EXCEPT !.isTextMessage = TRUE, !.activityScore = @ + 5]
       ELSE IF hasGraphActivity /\ hasSignalling
            THEN [r EXCEPT !.isTextMessage = TRUE, !.activityScore = @ + 4]
       ELSE IF hasMediaUpload
            THEN [r EXCEPT !.isTextMessage = TRUE, !.activityScore = @ + 4]
       ELSE r

\* 4. voice note / media sent: mmg.whatsapp.net present
WaMediaSent(es, r) ==
    LET hasMediaUpload    == hasDomainPattern(es, WHATSAPP_ACTIVITY_INDICATORS.mediaUpload)
        hasMediaDownload  == hasDomainPattern(es, WHATSAPP_ACTIVITY_INDICATORS.mediaDownload)
        hasStaticActivity == hasDomainPattern(es, <<"static.whatsapp.net">>)
        hasDitActivity    == hasDomainPattern(es, <<"dit.whatsapp.net">>)
    IN IF hasMediaUpload
       THEN [r EXCEPT !.isMediaTransfer = TRUE,
                      !.activityScore = @ + 6
                          + (IF hasMediaDownload /\ hasStaticActivity /\ hasDitActivity
                             THEN 3 ELSE 0)]
       ELSE r

IsAppleSystem(e) == Includes(e.domain, "apple.com") \/ Includes(e.domain, "icloud.com")

\* 5. voice note received: anchor, then signalling and a media-CDN fetch within 300s
WaVoiceNoteReceived(es, r) ==
    LET apnsEntries == detectAPNs(es)
        Received(a) ==
            /\ Len(SelectSeq(findEntriesInWindow(es, a.parsedTimestamp, 0, 300), IsSignalling)) > 0
            /\ Len(SelectSeq(findEntriesInWindow(es, a.parsedTimestamp, 0, 300),
                          IsWhatsAppMediaCDN)) > 0
            /\ Len(SelectSeq(findEntriesInWindow(es, a.parsedTimestamp, 30, 30),
                          IsAppleSystem)) < 2
    IN IF ~r.isVoiceCall /\ ~r.isMediaTransfer
          /\ \E i \in DOMAIN apnsEntries : Received(apnsEntries[i])
       THEN [r EXCEPT !.isMediaTransfer = TRUE, !.activityScore = @ + 6]
       ELSE r

\* 6. media received: media CDN without upload and without a call
WaMediaReceived(es, r) ==
    IF /\ hasDomainPattern(es, WHATSAPP_ACTIVITY_INDICATORS.mediaDownload)
       /\ ~hasDomainPattern(es, WHATSAPP_ACTIVITY_INDICATORS.mediaUpload)
       /\ ~r.isVoiceCall
    THEN [r EXCEPT !.isMediaTransfer = TRUE, !.activityScore = @ + 4]
    ELSE r

\* Mutant of WaPersistentConnection: the boost needs a score of 7 or more.
WaPersistentConnection_HighScoreOnly(r) ==
    IF r.isMediaTransfer /\ ~r.isTextMessage /\ r.activityScore >= 7
    THEN [r EXCEPT !.isTextMessage = TRUE, !.activityScore = @ + 2]
    ELSE r

\* 7. persistent connection: media activity also counts as messaging
WaPersistentConnection(r) ==
    IF r.isMediaTransfer /\ ~r.isTextMessage /\ r.activityScore >= 4
    THEN [r EXCEPT !.isTextMessage = TRUE, !.activityScore = @ + 2]
    ELSE r

\* Mutant of WaMinimalScore: no floor.
WaMinimalScore_NoFloor(es, r) == r

\* minimal score for any WhatsApp presence
WaMinimalScore(es, r) ==
    IF /\ r.activityScore = 0
       /\ \/ hasDomainPattern(es, WHATSAPP_ACTIVITY_INDICATORS.core)
          \/ hasDomainPattern(es, WHATSAPP_ACTIVITY_INDICATORS.signalling)
    THEN [r EXCEPT !.activityScore = 1]
    ELSE r

\* Mutant of WaReturnsEarly: the return for a window without WhatsApp domains is lost.
WaReturnsEarly_OnlyReels(es) ==
    /\ hasNetSeerCDN(es)
    /\ ~(Len(detectAPNs(es)) > 0
         \/ hasDomainPattern(es, WHATSAPP_ACTIVITY_INDICATORS.mediaUpload))

\* The two early returns: no WhatsApp domain at all, or reels without strong evidence.
WaReturnsEarly(es) ==
    \/ /\ ~hasDomainPattern(es, WHATSAPP_ACTIVITY_INDICATORS.core)
       /\ ~hasDomainPattern(es, WHATSAPP_ACTIVITY_INDICATORS.signalling)
    \/ /\ hasNetSeerCDN(es)
       /\ ~(Len(detectAPNs(es)) > 0
            \/ hasDomainPattern(es, WHATSAPP_ACTIVITY_INDICATORS.mediaUpload))

detectWhatsAppActivity(we) ==
    LET sortedEntries == SortByTimestamp(we)
    IN IF WaReturnsEarly(sortedEntries) THEN WhatsAppNothing
       ELSE WaMinimalScore(sortedEntries,
              WaPersistentConnection(
                WaMediaReceived(sortedEntries,
                  WaVoiceNoteReceived(sortedEntries,
                    WaMediaSent(sortedEntries,
                      WaTextMessage(sortedEntries,
                        WaVoiceNote(sortedEntries,
                          WaIncomingCall(sortedEntries, WhatsAppNothing))))))))

(***************************************************************************)
(* detectFacebookActivity.                                                 *)
(***************************************************************************)
FacebookNothing ==
    [isMessaging |-> FALSE, isMediaTransfer |-> FALSE, isBackgroundRefresh |-> FALSE,
     isInstagramActivity |-> FALSE, isReelsScrolling |-> FALSE, activityScore |-> 0,
     isCall |-> FALSE]

IsFacebook(e) == Includes(e.domain, "facebook")

\* no Facebook pattern at all: the first return
FbNoActivity(es) ==
    /\ ~hasDomainPattern(es, FACEBOOK_ACTIVITY_INDICATORS.core)
    /\ ~hasDomainPattern(es, FACEBOOK_ACTIVITY_INDICATORS.messaging)
    /\ ~hasDomainPattern(es, FACEBOOK_ACTIVITY_INDICATORS.textSend)
    /\ ~hasDomainPattern(es, FACEBOOK_ACTIVITY_INDICATORS.mediaUpload)

hasVideoStaticAssets(es) ==
    \E i \in DOMAIN es : Includes(es[i].domain, "static-") /\ Includes(es[i].domain, ".xx.fbcdn.net")

\* 0. the reels override applies: a reels pattern with NetSeer or a video static asset
FbReelsReturns(es) ==
    /\ hasDomainPattern(es, FACEBOOK_ACTIVITY_INDICATORS.reelsVideo)
    /\ (hasNetSeerCDN(es) \/ hasVideoStaticAssets(es))

\* Mutant of FbReelsOverride: NetSeer is treated like a video static asset.
FbReelsOverride_NoBackground(es) ==
    [FacebookNothing EXCEPT !.isReelsScrolling = TRUE, !.activityScore = 3]

\* what the reels override returns
FbReelsOverride(es) ==
    IF hasNetSeerCDN(es)
    THEN [FacebookNothing EXCEPT !.isBackgroundRefresh = TRUE,
                                 !.isReelsScrolling = TRUE, !.activityScore = 3]
    ELSE [FacebookNothing EXCEPT !.isReelsScrolling = TRUE, !.activityScore = 3]

\* 1. call: STUN marker with a Messenger marker and no WhatsApp media in the window
FbCall(es, r) ==
    LET IsWhatsAppInterference(e) ==
            \/ Includes(e.domain, "mmg.whatsapp.net")
            \/ (Includes(e.domain, "media-") /\ Includes(e.domain, "cdn.whatsapp.net"))
    IN IF /\ hasDomainPattern(es, FACEBOOK_ACTIVITY_INDICATORS.calls)
          /\ \/ hasDomainPattern(es, FACEBOOK_ACTIVITY_INDICATORS.messaging)
             \/ hasDomainPattern(es, FACEBOOK_ACTIVITY_INDICATORS.core)
          /\ Len(SelectSeq(es, IsWhatsAppInterference)) = 0
       THEN [r EXCEPT !.isCall = TRUE, !.activityScore = @ + 7]
       ELSE r

totalFacebookDomains(es) == Len(SelectSeq(es, IsFacebook))

uniqueFacebookDomains(es) == Cardinality({es[i].domain : i \in {j \in DOMAIN es : IsFacebook(es[j])}})

hasTypicalAppLaunchDomains(es) ==
    hasDomainPattern(es, <<"www.facebook.com", "web.facebook.com", "m.facebook.com",
                           "gateway.facebook.com", "graph.facebook.com", "api.facebook.com",
                           "star.fallback.c10r.facebook.com", "lookaside.facebook.com">>)

\* Milliseconds around the first upload in which other Facebook entries count as a burst.
BURST_WINDOW_MS == 5000

\* analyzeTemporalPattern: the Facebook entries near the first rupload entry
analyzeTemporalPattern(es) ==
    LET IsRupload(e) == Includes(e.domain, "rupload.facebook.com")
        ruploadEntries == SelectSeq(es, IsRupload)
    IN IF ~hasDomainPattern(es, FACEBOOK_ACTIVITY_INDICATORS.mediaUpload)
          \/ Len(ruploadEntries) = 0
       THEN [isBurstPattern |-> FALSE, isIsolatedPattern |-> FALSE]
       ELSE LET ruploadTime == ruploadEntries[1].parsedTimestamp
                Nearby(e) ==
                    /\ Includes(e.domain, "facebook")
                    /\ ~Includes(e.domain, "rupload.facebook.com")
                    /\ e.parsedTimestamp - ruploadTime <= BURST_WINDOW_MS
                    /\ ruploadTime - e.parsedTimestamp <= BURST_WINDOW_MS
                n == Len(SelectSeq(es, Nearby))
            IN [isBurstPattern |-> n >= 6, isIsolatedPattern |-> n <= 2]

\* Mutant of hasSpecificMessagingEvidence: text-only messaging (pm.facebook.com with
\* realtime messaging and no media) is not counted as evidence.
hasSpecificMessagingEvidence_NoTextOnly(es) ==
    LET hasMediaUpload   == hasDomainPattern(es, FACEBOOK_ACTIVITY_INDICATORS.mediaUpload)
        hasMediaDownload == hasDomainPattern(es, FACEBOOK_ACTIVITY_INDICATORS.mediaDownload)
        hasMessagingMQTT == hasDomainPattern(es, FACEBOOK_ACTIVITY_INDICATORS.messaging)
        hasE2EE          == hasDomainPattern(es, <<"chat-e2ee.facebook.com">>)
        hasStrongTextSendEvidence == hasDomainPattern(es, <<"pm.facebook.com">>)
        hasWeakTextSendEvidence   == hasDomainPattern(es, <<"web.facebook.com">>)
        t == analyzeTemporalPattern(es)
    IN \/ /\ hasMediaUpload /\ ~t.isBurstPattern
          /\ (hasStrongTextSendEvidence \/ hasWeakTextSendEvidence \/ hasMessagingMQTT \/ hasE2EE)
       \/ (hasMediaUpload /\ t.isIsolatedPattern /\ hasMessagingMQTT)
       \/ (Len(detectAPNs(es)) > 0 /\ (hasMediaUpload \/ hasMediaDownload))
       \/ /\ hasWeakTextSendEvidence
          /\ uniqueFacebookDomains(es) <= 5 /\ totalFacebookDomains(es) <= 8

hasSpecificMessagingEvidence(es) ==
    LET hasMediaUpload   == hasDomainPattern(es, FACEBOOK_ACTIVITY_INDICATORS.mediaUpload)
        hasMediaDownload == hasDomainPattern(es, FACEBOOK_ACTIVITY_INDICATORS.mediaDownload)
        hasMessagingMQTT == hasDomainPattern(es, FACEBOOK_ACTIVITY_INDICATORS.messaging)
        hasE2EE          == hasDomainPattern(es, <<"chat-e2ee.facebook.com">>)
        hasStrongTextSendEvidence == hasDomainPattern(es, <<"pm.facebook.com">>)
        hasWeakTextSendEvidence   == hasDomainPattern(es, <<"web.facebook.com">>)
        t == analyzeTemporalPattern(es)
    IN \/ /\ hasMediaUpload /\ ~t.isBurstPattern
          /\ (hasStrongTextSendEvidence \/ hasWeakTextSendEvidence \/ hasMessagingMQTT \/ hasE2EE)
       \/ (hasMediaUpload /\ t.isIsolatedPattern /\ hasMessagingMQTT)
       \/ (hasStrongTextSendEvidence /\ hasMessagingMQTT /\ ~hasMediaUpload /\ ~hasMediaDownload)
       \/ (Len(detectAPNs(es)) > 0 /\ (hasMediaUpload \/ hasMediaDownload))
       \/ /\ hasWeakTextSendEvidence
          /\ uniqueFacebookDomains(es) <= 5 /\ totalFacebookDomains(es) <= 8

\* Mutant of isLikelyAppLaunch: a large burst counts as an app launch even with media.
isLikelyAppLaunch_IgnoresMedia(es) ==
    LET hasMediaUpload   == hasDomainPattern(es, FACEBOOK_ACTIVITY_INDICATORS.mediaUpload)
        hasMediaDownload == hasDomainPattern(es, FACEBOOK_ACTIVITY_INDICATORS.mediaDownload)
    IN \/ /\ uniqueFacebookDomains(es) >= 8 /\ totalFacebookDomains(es) >= 10
          /\ hasTypicalAppLaunchDomains(es)
       \/ /\ hasDomainPattern(es, <<"gateway.facebook.com">>)
          /\ hasDomainPattern(es, <<"graph.facebook.com">>)
          /\ hasDomainPattern(es, <<"edge-mqtt.facebook.com">>)
          /\ hasDomainPattern(es, <<"www.facebook.com">>)
          /\ ~hasMediaUpload /\ ~hasMediaDownload
          /\ ~hasSpecificMessagingEvidence(es)

isLikelyAppLaunch(es) ==
    LET hasMediaUpload   == hasDomainPattern(es, FACEBOOK_ACTIVITY_INDICATORS.mediaUpload)
        hasMediaDownload == hasDomainPattern(es, FACEBOOK_ACTIVITY_INDICATORS.mediaDownload)
    IN \/ /\ uniqueFacebookDomains(es) >= 8 /\ totalFacebookDomains(es) >= 10
          /\ hasTypicalAppLaunchDomains(es)
          /\ ~hasMediaUpload /\ ~hasMediaDownload
       \/ /\ hasDomainPattern(es, <<"gateway.facebook.com">>)
          /\ hasDomainPattern(es, <<"graph.facebook.com">>)
          /\ hasDomainPattern(es, <<"edge-mqtt.facebook.com">>)
          /\ hasDomainPattern(es, <<"www.facebook.com">>)
          /\ ~hasMediaUpload /\ ~hasMediaDownload
          /\ ~hasSpecificMessagingEvidence(es)

\* Mutant of FbTextSent: pm.facebook.com counts only in a window of few domains.
FbTextSent_FewDomainsOnly(es, r) ==
    IF /\ ~r.isCall
       /\ \/ hasDomainPattern(es, <<"pm.facebook.com">>)
          \/ hasDomainPattern(es, <<"web.facebook.com">>)
       /\ uniqueFacebookDomains(es) <= 4
       /\ hasDomainPattern(es, FACEBOOK_ACTIVITY_INDICATORS.messaging)
       /\ ~hasDomainPattern(es, FACEBOOK_ACTIVITY_INDICATORS.mediaUpload)
       /\ ~hasDomainPattern(es, FACEBOOK_ACTIVITY_INDICATORS.mediaDownload)
       /\ ~isLikelyAppLaunch(es)
       /\ ~hasNetSeerCDN(es)
    THEN [r EXCEPT !.isMessaging = TRUE, !.activityScore = @ + 6]
    ELSE r

\* 3. text sent: send UI with realtime messaging, no media
FbTextSent(es, r) ==
    IF /\ ~r.isCall
       /\ \/ hasDomainPattern(es, <<"pm.facebook.com">>)
          \/ (hasDomainPattern(es, <<"web.facebook.com">>) /\ uniqueFacebookDomains(es) <= 4)
       /\ hasDomainPattern(es, FACEBOOK_ACTIVITY_INDICATORS.messaging)
       /\ ~hasDomainPattern(es, FACEBOOK_ACTIVITY_INDICATORS.mediaUpload)
       /\ ~hasDomainPattern(es, FACEBOOK_ACTIVITY_INDICATORS.mediaDownload)
       /\ ~isLikelyAppLaunch(es)
       /\ ~hasNetSeerCDN(es)
    THEN [r EXCEPT !.isMessaging = TRUE, !.activityScore = @ + 6]
    ELSE r

\* 4a. message + media exchange with messaging context
FbMediaExchange(es, r) ==
    LET hasUpload   == hasDomainPattern(es, <<"rupload.facebook.com">>)
        hasDownload == hasDomainPattern(es, <<"scontent-", "fbcdn.net">>)
        hasE2EE     == hasDomainPattern(es, <<"chat-e2ee.facebook.com">>)
        hasTextSend == hasDomainPattern(es, FACEBOOK_ACTIVITY_INDICATORS.textSend)
        hasMessagingMQTT == hasDomainPattern(es, FACEBOOK_ACTIVITY_INDICATORS.messaging)
        hasMessagingContext ==
            \/ hasMessagingMQTT \/ hasE2EE
            \/ hasDomainPattern(es, <<"gateway.facebook.com", "graph.facebook.com">>)
        hasStrongMessagingEvidence ==
            \/ hasDomainPattern(es, <<"pm.facebook.com">>)
            \/ (hasE2EE /\ hasMessagingContext)
            \/ (hasUpload /\ hasMessagingContext)
            \/ Len(detectAPNs(es)) > 0
            \/ (hasDomainPattern(es, <<"web.facebook.com">>) /\ uniqueFacebookDomains(es) <= 5)
    IN IF hasMessagingContext /\ (hasStrongMessagingEvidence \/ ~isLikelyAppLaunch(es))
       THEN IF hasUpload /\ hasDownload
            THEN [r EXCEPT !.isMessaging = TRUE, !.isMediaTransfer = TRUE,
                           !.activityScore = @ + 9]
            ELSE IF hasUpload /\ (hasTextSend \/ hasE2EE \/ hasMessagingContext)
            THEN [r EXCEPT !.isMessaging = TRUE, !.isMediaTransfer = TRUE,
                           !.activityScore = @ + 8]
            ELSE IF hasDownload /\ hasE2EE /\ hasMessagingMQTT
            THEN [r EXCEPT !.isMessaging = TRUE, !.isMediaTransfer = TRUE,
                           !.activityScore = @ + 7]
            ELSE r
       ELSE r

\* 4b. anchor-triggered activity: Facebook entries within 300s after an anchor
FbAnchorTriggered(es, r) ==
    LET apnsEntries == detectAPNs(es)
        hasUpload   == hasDomainPattern(es, <<"rupload.facebook.com">>)
        hasDownload == hasDomainPattern(es, <<"scontent-", "fbcdn.net">>)
        Triggered(a) ==
            /\ Len(SelectSeq(findEntriesInWindow(es, a.parsedTimestamp, 0, 300), IsFacebook)) > 0
            /\ (hasUpload \/ hasDownload)
    IN IF /\ Len(apnsEntries) > 0 /\ ~r.isMessaging
          /\ \E i \in DOMAIN apnsEntries : Triggered(apnsEntries[i])
       THEN [r EXCEPT !.isMessaging = TRUE, !.isMediaTransfer = TRUE,
                      !.activityScore = @ + 6]
       ELSE r

\* 4. message + photo exchange (both parts), only with media and without NetSeer
FbMessagePhotoExchange(es, r) ==
    IF /\ \/ hasDomainPattern(es, FACEBOOK_ACTIVITY_INDICATORS.mediaUpload)
          \/ hasDomainPattern(es, FACEBOOK_ACTIVITY_INDICATORS.mediaDownload)
       /\ ~hasNetSeerCDN(es)
    THEN FbAnchorTriggered(es, FbMediaExchange(es, r))
    ELSE r

\* 5. API-based messaging
FbApiMessaging(es, r) ==
    LET hasE2EE         == hasDomainPattern(es, <<"chat-e2ee.facebook.com">>)
        hasStarFallback == hasDomainPattern(es, <<"star.fallback.c10r.facebook.com">>)
        hasAPNsEvidence == Len(detectAPNs(es)) > 0
    IN IF /\ ~r.isCall /\ ~r.isMessaging
          /\ \/ hasDomainPattern(es, FACEBOOK_ACTIVITY_INDICATORS.messaging)
             \/ hasDomainPattern(es, FACEBOOK_ACTIVITY_INDICATORS.api)
          /\ ~isLikelyAppLaunch(es) /\ ~hasNetSeerCDN(es)
          /\ \/ (hasE2EE /\ hasStarFallback)
             \/ (hasStarFallback /\ hasAPNsEvidence)
             \/ (hasE2EE /\ hasAPNsEvidence)
       THEN [r EXCEPT !.isMessaging = TRUE,
                      !.activityScore = @ + (IF hasE2EE /\ hasStarFallback THEN 6
                                             ELSE IF hasE2EE \/ hasStarFallback THEN 5
                                             ELSE 0)]
       ELSE r

\* Mutant of FbIsolatedNotification: the push anchor is not required.
FbIsolatedNotification_NoAnchor(es, r) ==
    LET IsMqtt(e)  == Includes(e.domain, "edge-mqtt.facebook.com")
        IsOther(e) == Includes(e.domain, "facebook") /\ ~Includes(e.domain, "edge-mqtt.facebook.com")
    IN IF /\ ~r.isCall /\ ~r.isMessaging
          /\ hasDomainPattern(es, FACEBOOK_ACTIVITY_INDICATORS.messaging)
          /\ ~hasDomainPattern(es, FACEBOOK_ACTIVITY_INDICATORS.textSend)
          /\ ~hasDomainPattern(es, FACEBOOK_ACTIVITY_INDICATORS.mediaUpload)
          /\ ~hasDomainPattern(es, FACEBOOK_ACTIVITY_INDICATORS.mediaDownload)
          /\ ~isLikelyAppLaunch(es) /\ ~hasNetSeerCDN(es)
          /\ Len(SelectSeq(es, IsMqtt)) >= 1
          /\ Len(SelectSeq(es, IsOther)) <= 1
       THEN [r EXCEPT !.isMessaging = TRUE, !.activityScore = @ + 4]
       ELSE r

\* 6. isolated notification received: MQTT with at most one other Facebook entry and an anchor
FbIsolatedNotification(es, r) ==
    LET IsMqtt(e)  == Includes(e.domain, "edge-mqtt.facebook.com")
        IsOther(e) == Includes(e.domain, "facebook") /\ ~Includes(e.domain, "edge-mqtt.facebook.com")
    IN IF /\ ~r.isCall /\ ~r.isMessaging
          /\ hasDomainPattern(es, FACEBOOK_ACTIVITY_INDICATORS.messaging)
          /\ ~hasDomainPattern(es, FACEBOOK_ACTIVITY_INDICATORS.textSend)
          /\ ~hasDomainPattern(es, FACEBOOK_ACTIVITY_INDICATORS.mediaUpload)
          /\ ~hasDomainPattern(es, FACEBOOK_ACTIVITY_INDICATORS.mediaDownload)
          /\ ~isLikelyAppLaunch(es) /\ ~hasNetSeerCDN(es)
          /\ Len(SelectSeq(es, IsMqtt)) >= 1
          /\ Len(SelectSeq(es, IsOther)) <= 1
          /\ Len(detectAPNs(es)) > 0
       THEN [r EXCEPT !.isMessaging = TRUE, !.activityScore = @ + 4]
       ELSE r

\* Mutant of FbMediaSent: an upload counts as a media transfer without messaging.
FbMediaSent_WithoutMessaging(es, r) ==
    IF /\ hasDomainPattern(es, FACEBOOK_ACTIVITY_INDICATORS.mediaUpload)
       /\ ~isLikelyAppLaunch(es)
    THEN [r EXCEPT !.isMediaTransfer = TRUE, !.activityScore = @ + 3]
    ELSE r

\* 7. media sent, only as part of messaging
FbMediaSent(es, r) ==
    IF /\ hasDomainPattern(es, FACEBOOK_ACTIVITY_INDICATORS.mediaUpload)
       /\ ~isLikelyAppLaunch(es) /\ r.isMessaging
    THEN [r EXCEPT !.isMediaTransfer = TRUE, !.activityScore = @ + 3]
    ELSE r

\* 8. media received, only as part of messaging
FbMediaReceived(es, r) ==
    IF /\ hasDomainPattern(es, FACEBOOK_ACTIVITY_INDICATORS.mediaDownload)
       /\ ~hasDomainPattern(es, FACEBOOK_ACTIVITY_INDICATORS.mediaUpload)
       /\ ~isLikelyAppLaunch(es) /\ r.isMessaging
    THEN [r EXCEPT !.isMediaTransfer = TRUE, !.activityScore = @ + 2]
    ELSE r

\* 9. Instagram activity
FbInstagram(es, r) ==
    IF \E i \in DOMAIN es : Includes(es[i].domain, "instagram")
    THEN [r EXCEPT !.isInstagramActivity = TRUE, !.activityScore = @ + 3]
    ELSE r

\* Mutant of FbBackgroundRefresh: Instagram activity does not prevent the fallback.
FbBackgroundRefresh_IgnoresInstagram(es, r) ==
    IF /\ ~r.isMessaging /\ ~r.isMediaTransfer /\ ~r.isCall
       /\ \/ hasDomainPattern(es, FACEBOOK_ACTIVITY_INDICATORS.background)
          \/ /\ hasDomainPattern(es, FACEBOOK_ACTIVITY_INDICATORS.core)
             /\ countDomainPattern(es, FACEBOOK_ACTIVITY_INDICATORS.core) <= 2
    THEN [r EXCEPT !.isBackgroundRefresh = TRUE, !.activityScore = 1]
    ELSE r

\* background refresh: basic domain access without a specific pattern
FbBackgroundRefresh(es, r) ==
    IF /\ ~r.isMessaging /\ ~r.isMediaTransfer /\ ~r.isCall /\ ~r.isInstagramActivity
       /\ \/ hasDomainPattern(es, FACEBOOK_ACTIVITY_INDICATORS.background)
          \/ /\ hasDomainPattern(es, FACEBOOK_ACTIVITY_INDICATORS.core)
             /\ countDomainPattern(es, FACEBOOK_ACTIVITY_INDICATORS.core) <= 2
    THEN [r EXCEPT !.isBackgroundRefresh = TRUE, !.activityScore = 1]
    ELSE r

\* Mutant of FbMinimalScore: no floor.
FbMinimalScore_NoFloor(es, r) == r

\* minimal score for any Facebook presence
FbMinimalScore(es, r) ==
    IF r.activityScore = 0 /\ hasDomainPattern(es, FACEBOOK_ACTIVITY_INDICATORS.core)
    THEN [r EXCEPT !.activityScore = 1]
    ELSE r

\* The rules after the app-launch check.
FbMessagingRules(es, r) ==
    FbMinimalScore(es,
      FbBackgroundRefresh(es,
        FbInstagram(es,
          FbMediaReceived(es,
            FbMediaSent(es,
              FbIsolatedNotification(es,
                FbApiMessaging(es,
                  FbMessagePhotoExchange(es,
                    FbTextSent(es, r)))))))))

detectFacebookActivity(we) ==
    LET sortedEntries == SortByTimestamp(we)
    IN IF FbNoActivity(sortedEntries) THEN FacebookNothing
       ELSE IF FbReelsReturns(sortedEntries) THEN FbReelsOverride(sortedEntries)
       ELSE LET r1 == FbCall(sortedEntries, FacebookNothing)
            IN IF isLikelyAppLaunch(sortedEntries)
               THEN [r1 EXCEPT !.isBackgroundRefresh = TRUE, !.activityScore = 1]
               ELSE FbMessagingRules(sortedEntries, r1)

(***************************************************************************)
(* Specification Spec: a caller builds a window entry by entry, in any     *)
(* order, and hands it to one of the two classifiers.                      *)
(***************************************************************************)
Entry(d, t) == [domain |-> d, parsedTimestamp |-> t]

NoConcerns == [fn |-> "none"]

Init ==
    /\ windowEntries = <<>>
    /\ activity = NoResult
    /\ domains = <<>>
    /\ concerns = NoConcerns
    /\ entries = <<>>
    /\ stats = <<>>

AddEntry(d, t) ==
    /\ activity = NoResult
    /\ Len(windowEntries) < MaxWindow
    /\ windowEntries' = Append(windowEntries, Entry(d, t))
    /\ UNCHANGED <<activity, domains, concerns, entries, stats>>

\* Mutant of InputAfterCall: the classifier sorts the caller's array in place.
InputAfterCall_SortedInPlace(we) == SortByTimestamp(we)

\* The caller's array after a classifier call: both classifiers sort a spread copy
\* ([...windowEntries].sort(...)), so the array keeps its entries and their order.
InputAfterCall(we) == we

DetectWhatsApp ==
    /\ activity = NoResult
    /\ activity' = [fn |-> "whatsapp", result |-> detectWhatsAppActivity(windowEntries)]
    /\ windowEntries' = InputAfterCall(windowEntries)
    /\ UNCHANGED <<domains, concerns, entries, stats>>

DetectFacebook ==
    /\ activity = NoResult
    /\ activity' = [fn |-> "facebook", result |-> detectFacebookActivity(windowEntries)]
    /\ windowEntries' = InputAfterCall(windowEntries)
    /\ UNCHANGED <<domains, concerns, entries, stats>>

\* The classifier that has classified the window is called on it again.
DetectAgain ==
    /\ activity # NoResult
    /\ activity' = [fn |-> activity.fn,
                    result |-> IF activity.fn = "whatsapp"
                               THEN detectWhatsAppActivity(windowEntries)
                               ELSE detectFacebookActivity(windowEntries)]
    /\ windowEntries' = InputAfterCall(windowEntries)
    /\ UNCHANGED <<domains, concerns, entries, stats>>

Next ==
    \/ \E d \in WindowDomains, t \in WindowTimes : AddEntry(d, t)
    \/ DetectWhatsApp
    \/ DetectFacebook

Spec == Init /\ [][Next]_vars

(***************************************************************************)
(* Claims checked under Spec.                                              *)
(***************************************************************************)
DomainsOf(es) == {es[i].domain : i \in DOMAIN es}

\* Some domain of the window contains some pattern of the list (plain substring search).
WindowMatches(es, patterns) ==
    \E d \in DomainsOf(es) : \E p \in Range(patterns) : StrIncludes(d, p)

NoWhatsAppDomain(es) ==
    /\ ~WindowMatches(es, WHATSAPP_ACTIVITY_INDICATORS.core)
    /\ ~WindowMatches(es, WHATSAPP_ACTIVITY_INDICATORS.signalling)

NoFacebookDomain(es) ==
    /\ ~WindowMatches(es, FACEBOOK_ACTIVITY_INDICATORS.core)
    /\ ~WindowMatches(es, FACEBOOK_ACTIVITY_INDICATORS.messaging)
    /\ ~WindowMatches(es, FACEBOOK_ACTIVITY_INDICATORS.textSend)
    /\ ~WindowMatches(es, FACEBOOK_ACTIVITY_INDICATORS.mediaUpload)

C2_NetSeerAlwaysReels ==
    (activity.fn = "facebook"
     /\ \E d \in DomainsOf(windowEntries) : StrIncludes(d, "-netseer-ipaddr-assoc."))
        => (activity.result.isReelsScrolling /\ ~activity.result.isMessaging)

\* The window of C3: one push anchor at T and one g.whatsapp.net event at T+7s.
AnchorThenSignalling7s(es) ==
    /\ Len(es) = 2
    /\ \E i, j \in DOMAIN es :
          /\ es[i].domain = APNS_DOMAIN
          /\ es[j].domain = "g.whatsapp.net"
          /\ es[j].parsedTimestamp - es[i].parsedTimestamp = 7000

\* C3 (as stated): that window is an incoming voice call with score 8.
C3_AnchorPlus7sIsCall ==
    (activity.fn = "whatsapp" /\ AnchorThenSignalling7s(windowEntries))
        => /\ activity.result.isVoiceCall
           /\ activity.result.callDirection = "incoming"
           /\ activity.result.activityScore = 8

\* C3 (amended): signalling 7s after the anchor lies outside the anchor's call window
\* (-10s..+5s), so the window is no call: it is a notification-triggered text message
\* with score 7 and no direction.
C3_AnchorPlus7sIsTextMessage ==
    (activity.fn = "whatsapp" /\ AnchorThenSignalling7s(windowEntries))
        => /\ ~activity.result.isVoiceCall
           /\ activity.result.isTextMessage
           /\ ~activity.result.isMediaTransfer
           /\ activity.result.callDirection = ""
           /\ activity.result.activityScore = 7

\* C3 witness: the WhatsApp classifier ran on the anchor / T+7s signalling window.
C3_Witness ==
    activity.fn = "whatsapp" /\ AnchorThenSignalling7s(windowEntries)

\* C8: a window whose events are all g.whatsapp.net (any number, any timestamps) is
\* no text message, no media transfer and no call, and scores 0 or 1.
C8_KeepAliveSuppressed ==
    (activity.fn = "whatsapp" /\ windowEntries # <<>>
     /\ DomainsOf(windowEntries) = {"g.whatsapp.net"})
        => /\ ~activity.result.isTextMessage
           /\ ~activity.result.isMediaTransfer
           /\ ~activity.result.isVoiceCall
           /\ activity.result.activityScore \in {0, 1}

\* C8 witness: the WhatsApp classifier ran on several keep-alive events at different times.
C8_Witness ==
    /\ activity.fn = "whatsapp"
    /\ DomainsOf(windowEntries) = {"g.whatsapp.net"}
    /\ Len(windowEntries) >= 2
    /\ \E i, j \in DOMAIN windowEntries :
          windowEntries[i].parsedTimestamp # windowEntries[j].parsedTimestamp

(***************************************************************************)
(* detectRelationshipConcerns.                                             *)
(***************************************************************************)
\* Mutant of IsExcluded: the domain must equal an exclusion pattern, not contain one.
IsExcluded_ExactMatch(domain) ==
    \E i \in DOMAIN RELATIONSHIP_CONCERN_INDICATORS.excludePatterns :
        domain = RELATIONSHIP_CONCERN_INDICATORS.excludePatterns[i]

\* excludePatterns.some(pattern => domain.includes(pattern))
IsExcluded(domain) ==
    \E i \in DOMAIN RELATIONSHIP_CONCERN_INDICATORS.excludePatterns :
        Includes(domain, RELATIONSHIP_CONCERN_INDICATORS.excludePatterns[i])

\* The patterns of each category list that each domain of the model includes, in list
\* order, computed once by substring search.
MatchingPatterns ==
    [k \in {"datingApps", "alternativeMessaging", "videoCalling", "socialMessaging",
            "anonymousPlatforms"} |->
        [d \in DomainUniverse |->
            LET Hit(p) == StrIncludes(d, p)
            IN SelectSeq(RELATIONSHIP_CONCERN_INDICATORS[k], Hit)]]

\* The patterns p of category k, in list order, with domain.includes(p).
PatternsIn(domain, k) ==
    IF domain \in DomainUniverse THEN MatchingPatterns[k][domain]
    ELSE LET Hit(p) == StrIncludes(domain, p)
         IN SelectSeq(RELATIONSHIP_CONCERN_INDICATORS[k], Hit)

\* Appends the patterns of matches, from the i-th on, that list does not hold yet.
RECURSIVE PushNew(_, _, _)
PushNew(list, matches, i) ==
    IF i > Len(matches) THEN list
    ELSE PushNew(IF matches[i] \notin Range(list) THEN Append(list, matches[i]) ELSE list,
                 matches, i + 1)

\* Mutant of PushMatches: a matched pattern is pushed even when the list holds it.
PushMatches_KeepsDuplicates(list, domain, k) == list \o PatternsIn(domain, k)

\* INDICATORS[k].forEach(p => { if (domain.includes(p) && !list.includes(p)) list.push(p) })
PushMatches(list, domain, k) == PushNew(list, PatternsIn(domain, k), 1)

NoCategories ==
    [datingApps |-> <<>>, alternativeMessaging |-> <<>>, videoCalling |-> <<>>,
     socialMessaging |-> <<>>, anonymousPlatforms |-> <<>>]

\* the body of domains.forEach: one domain checked against the five category lists
CheckDomain(c, domain) ==
    IF IsExcluded(domain) THEN c
    ELSE [k \in DOMAIN c |-> PushMatches(c[k], domain, k)]

RECURSIVE CheckDomains(_, _)
CheckDomains(c, ds) ==
    IF ds = <<>> THEN c ELSE CheckDomains(CheckDomain(c, Head(ds)), Tail(ds))

DATING_WEIGHT      == 10
ANONYMOUS_WEIGHT   == 8
ALT_MESSAGING_WEIGHT == 6
VIDEO_WEIGHT       == 4
SOCIAL_WEIGHT      == 2

concernScore(c) ==
    Len(c.datingApps) * DATING_WEIGHT
    + Len(c.anonymousPlatforms) * ANONYMOUS_WEIGHT
    + Len(c.alternativeMessaging) * ALT_MESSAGING_WEIGHT
    + Len(c.videoCalling) * VIDEO_WEIGHT
    + Len(c.socialMessaging) * SOCIAL_WEIGHT

detectRelationshipConcerns(ds) ==
    LET c == CheckDomains(NoCategories, ds)
    IN [datingApps |-> c.datingApps,
        alternativeMessaging |-> c.alternativeMessaging,
        videoCalling |-> c.videoCalling,
        socialMessaging |-> c.socialMessaging,
        anonymousPlatforms |-> c.anonymousPlatforms,
        concernScore |-> concernScore(c)]

(***************************************************************************)
(* Specification SpecConcerns: a window's distinct domains (at most one    *)
(* listed dating, alternative-messaging and video-calling domain each,     *)
(* then extra domains at either end) are handed to the scorer.             *)
(***************************************************************************)
\* "-" stands for no domain of that list.
RECURSIVE Distinct(_)
Distinct(s) ==
    IF s = <<>> THEN <<>>
    ELSE LET rest == Distinct(SubSeq(s, 1, Len(s) - 1))
         IN IF s[Len(s)] \in Range(rest) \/ s[Len(s)] = "-" THEN rest
            ELSE Append(rest, s[Len(s)])

InitConcerns ==
    /\ windowEntries = <<>>
    /\ activity = NoResult
    /\ \E a \in Range(RELATIONSHIP_CONCERN_INDICATORS.datingApps) \cup {"-"},
          b \in Range(RELATIONSHIP_CONCERN_INDICATORS.alternativeMessaging) \cup {"-"},
          c \in Range(RELATIONSHIP_CONCERN_INDICATORS.videoCalling) \cup {"-"} :
            domains = Distinct(<<a, b, c>>)
    /\ concerns = NoConcerns
    /\ entries = <<>>
    /\ stats = <<>>

AddDomain(d, atFront) ==
    /\ concerns = NoConcerns
    /\ d \notin Range(domains)
    /\ Cardinality(Range(domains) \cap ExtraConcernDomains) < MaxExtraDomains
    /\ domains' = IF atFront THEN <<d>> \o domains ELSE Append(domains, d)
    /\ UNCHANGED <<windowEntries, activity, concerns, entries, stats>>

DetectConcerns ==
    /\ concerns = NoConcerns
    /\ concerns' = [fn |-> "concerns", result |-> detectRelationshipConcerns(domains)]
    /\ UNCHANGED <<windowEntries, activity, domains, entries, stats>>

NextConcerns ==
    \/ \E d \in ExtraConcernDomains, atFront \in BOOLEAN : AddDomain(d, atFront)
    \/ DetectConcerns

SpecConcerns == InitConcerns /\ [][NextConcerns]_vars

(***************************************************************************)
(* Claims checked under SpecConcerns.                                      *)
(***************************************************************************)
\* One listed dating domain, one listed alternative-messaging domain and one listed
\* video-calling domain, and nothing else.
IsConcernTriple(ds) ==
    \E a \in Range(RELATIONSHIP_CONCERN_INDICATORS.datingApps),
       b \in Range(RELATIONSHIP_CONCERN_INDICATORS.alternativeMessaging),
       c \in Range(RELATIONSHIP_CONCERN_INDICATORS.videoCalling) : Range(ds) = {a, b, c}

\* C4 (as stated): one listed dating domain alone scores 10; one dating + one
\* alternative-messaging + one video-calling domain score 20, for every choice from
\* the three lists.
C4_DatingIs10TripleIs20 ==
    concerns.fn = "concerns" =>
        /\ (Len(domains) = 1 /\ domains[1] \in Range(RELATIONSHIP_CONCERN_INDICATORS.datingApps))
              => concerns.result.concernScore = 10
        /\ IsConcernTriple(domains) => concerns.result.concernScore = 20

\* The window without the domains that contain an exclusion pattern.
WithoutExcluded(ds) ==
    LET Kept(d) == \A p \in Range(RELATIONSHIP_CONCERN_INDICATORS.excludePatterns) :
                        ~Includes(d, p)
    IN SelectSeq(ds, Kept)

\* C5: the scorer returns, for every window, the lists and the score it returns for
\* the same window with the excluded domains removed.
C5_ExcludedContributeNothing ==
    concerns.fn = "concerns" =>
        concerns.result = detectRelationshipConcerns(WithoutExcluded(domains))

\* C5 witness: the scorer ran on a window where an excluded host that contains a
\* video-calling pattern co-occurs with a listed dating domain.
C5_Witness ==
    /\ concerns.fn = "concerns"
    /\ "meet.google.com.accounts.google.com" \in Range(domains)
    /\ "tinder.com" \in Range(domains)
    /\ concerns.result.concernScore = 10

(***************************************************************************)
(* Specification SpecFacebook: a one-minute window of Facebook traffic.    *)
(* The window holds any subset of the Facebook domains, as one burst or    *)
(* spread over the minute, and may query a domain again before it is       *)
(* handed to detectFacebookActivity.                                       *)
(***************************************************************************)
BuildWindow(ds, gap) == [i \in 1..Len(ds) |-> Entry(ds[i], (i - 1) * gap)]

InitFacebook ==
    /\ \E S \in SUBSET FacebookDomains, gap \in WindowGaps :
          LET Chosen(d) == d \in S
          IN windowEntries = BuildWindow(SelectSeq(FacebookWindowOrder, Chosen), gap)
    /\ activity = NoResult
    /\ domains = <<>>
    /\ concerns = NoConcerns
    /\ entries = <<>>
    /\ stats = <<>>

RepeatEntry(d) ==
    /\ activity = NoResult
    /\ Len(windowEntries) - Cardinality({windowEntries[i].domain : i \in DOMAIN windowEntries})
          < MaxRepeat
    /\ LET t == IF windowEntries = <<>> THEN 0
                ELSE windowEntries[Len(windowEntries)].parsedTimestamp
       IN windowEntries' = Append(windowEntries, Entry(d, t))
    /\ UNCHANGED <<activity, domains, concerns, entries, stats>>

NextFacebook ==
    \/ \E d \in RepeatDomains : RepeatEntry(d)
    \/ DetectFacebook

SpecFacebook == InitFacebook /\ [][NextFacebook]_vars

(***************************************************************************)
(* Claims checked under SpecFacebook.                                      *)
(***************************************************************************)
\* The window holds rupload.facebook.com and a messaging-context domain, and neither a
\* NetSeer host nor a static-*.xx.fbcdn.net asset.
UploadWithContext(es) ==
    /\ "rupload.facebook.com" \in DomainsOf(es)
    /\ DomainsOf(es) \cap {"edge-mqtt.facebook.com", "chat-e2ee.facebook.com",
                           "gateway.facebook.com", "graph.facebook.com"} # {}
    /\ \A d \in DomainsOf(es) :
          /\ ~Includes(d, "-netseer-ipaddr-assoc.")
          /\ ~(Includes(d, "static-") /\ Includes(d, ".xx.fbcdn.net"))

\* The Facebook events of a window (domain contains "facebook"), and their domains.
FacebookEvents(es) == {i \in DOMAIN es : Includes(es[i].domain, "facebook")}

FacebookHosts(es) == {es[i].domain : i \in FacebookEvents(es)}

\* C6: an upload with a messaging-context domain and no reels/video marker is
\* classified as messaging with media transfer, not reels, with a score above 6,
\* however many other Facebook domains the window holds.
C6_UploadWithContextIsMessaging ==
    (activity.fn = "facebook" /\ UploadWithContext(windowEntries)) =>
        /\ activity.result.isMessaging
        /\ activity.result.isMediaTransfer
        /\ ~activity.result.isReelsScrolling
        /\ activity.result.activityScore > 6

\* C6 witness: an app-launch-sized burst (launch quartet, 8+ unique Facebook domains,
\* 10+ Facebook events) with an upload was classified as messaging.
C6_Witness ==
    /\ activity.fn = "facebook"
    /\ UploadWithContext(windowEntries)
    /\ LaunchQuartet \subseteq DomainsOf(windowEntries)
    /\ Cardinality(FacebookHosts(windowEntries)) >= 8
    /\ Cardinality(FacebookEvents(windowEntries)) >= 10
    /\ activity.result.isMessaging
    /\ activity.result.activityScore > 6

\* The window holds 8 or more unique Facebook domains with the launch quartet among
\* them, no media upload or download domain, and no push anchor.
LaunchWindow(es) ==
    /\ Cardinality(FacebookHosts(es)) >= 8
    /\ LaunchQuartet \subseteq DomainsOf(es)
    /\ \A d \in DomainsOf(es) :
          /\ ~Includes(d, "rupload.facebook.com")
          /\ ~Includes(d, "scontent.") /\ ~Includes(d, ".fbcdn.net")
          /\ ~Includes(d, ".fbsbx.com")
          /\ ~(Includes(d, "courier") /\ Includes(d, "push.apple.com"))

\* C7 (as stated): every such window is a background refresh with score 1 and no
\* messaging, pm.facebook.com or web.facebook.com included, whatever the event count.
C7_LaunchWindowIsBackground ==
    (activity.fn = "facebook" /\ LaunchWindow(windowEntries)) =>
        /\ activity.result.isBackgroundRefresh
        /\ activity.result.activityScore = 1
        /\ ~activity.result.isMessaging

\* C7 (amended): such a window is a background refresh with score 1 and no messaging
\* when it holds 10 or more Facebook events or does not hold pm.facebook.com; with
\* pm.facebook.com and fewer than 10 Facebook events it is classified as messaging
\* (text sent), score 6 or more, and not as a background refresh.
C7_LaunchWindowUnlessTextSend ==
    (activity.fn = "facebook" /\ LaunchWindow(windowEntries)) =>
        IF /\ "pm.facebook.com" \in DomainsOf(windowEntries)
           /\ Cardinality(FacebookEvents(windowEntries)) < 10
        THEN /\ activity.result.isMessaging
             /\ ~activity.result.isBackgroundRefresh
             /\ activity.result.activityScore >= 6
        ELSE /\ activity.result.isBackgroundRefresh
             /\ activity.result.activityScore = 1
             /\ ~activity.result.isMessaging

\* C7 witness: a launch window with pm.facebook.com and 10 Facebook events was
\* classified as a background refresh.
C7_Witness ==
    /\ activity.fn = "facebook"
    /\ LaunchWindow(windowEntries)
    /\ "pm.facebook.com" \in DomainsOf(windowEntries)
    /\ Cardinality(FacebookEvents(windowEntries)) >= 10
    /\ activity.result.isBackgroundRefresh
    /\ activity.result.activityScore = 1

(***************************************************************************)
(* Time windows.  parsedTimestamp is in milliseconds of local time since   *)
(* 2025-09-13T00:00; the key of a window is the text date-fns format()     *)
(* produces for it, and detectReelsMasking reads the time back from that   *)
(* text.                                                                   *)
(***************************************************************************)
MS_PER_SECOND == 1000

MS_PER_MINUTE == 1000 * 60

Pad2(n) == IF n < 10 THEN "0" \o ToString(n) ELSE ToString(n)

\* format(date, 'yyyy-MM-dd HH:mm')
format(ts) ==
    LET day    == ts \div (1440 * MS_PER_MINUTE)
        hour   == (ts \div (60 * MS_PER_MINUTE)) % 24
        minute == (ts \div MS_PER_MINUTE) % 60
    IN "2025-09-" \o Pad2(13 + day) \o " " \o Pad2(hour) \o ":" \o Pad2(minute)

\* processProcessLogEntry on one row of the log: the row's fields are kept, the parsed
\* timestamp, the blocked flag and the minute key are added.
processLogRow(row) ==
    [domain |-> row.domain, parsedTimestamp |-> row.timestamp,
     timeWindow |-> format(row.timestamp), status |-> row.status,
     isBlocked |-> row.status = "blocked", device_name |-> row.device_name]

\* The row of an allowed query of the one device of a single-device log.
processProcessLogEntry(d, ts) ==
    processLogRow([domain |-> d, timestamp |-> ts, status |-> "default",
                   device_name |-> "iPhone"])

\* Position of the first occurrence of character c in s from position i on, 0 if none.
RECURSIVE IndexOf(_, _, _)
IndexOf(s, c, i) ==
    IF i > Len(s) THEN 0
    ELSE IF SubSeq(s, i, i) = c THEN i
    ELSE IndexOf(s, c, i + 1)

\* s.replace(a, b) for single characters: the first occurrence only
ReplaceFirst(s, a, b) ==
    LET i == IndexOf(s, a, 1)
    IN IF i = 0 THEN s ELSE SubSeq(s, 1, i - 1) \o b \o SubSeq(s, i + 1, Len(s))

\* s.split(' '): the parts of s between single spaces
RECURSIVE SplitAtSpace(_)
SplitAtSpace(s) ==
    LET i == IndexOf(s, " ", 1)
    IN IF i = 0 THEN <<s>>
       ELSE <<SubSeq(s, 1, i - 1)>> \o SplitAtSpace(SubSeq(s, i + 1, Len(s)))

DigitValue(c) == CHOOSE n \in 0..9 : ToString(n) = c

RECURSIVE ParseNumber(_)
ParseNumber(s) ==
    IF Len(s) = 0 THEN 0
    ELSE ParseNumber(SubSeq(s, 1, Len(s) - 1)) * 10 + DigitValue(SubSeq(s, Len(s), Len(s)))

\* new Date(timeWindow.replace(' ', 'T') + ':00').getTime(), by parsing the text
ParseTimeWindow(tw) ==
    LET iso    == ReplaceFirst(tw, " ", "T") \o ":00"
        day    == ParseNumber(SubSeq(iso, 9, 10))
        hour   == ParseNumber(SubSeq(iso, 12, 13))
        minute == ParseNumber(SubSeq(iso, 15, 16))
        second == ParseNumber(SubSeq(iso, 18, 19))
    IN ((day - 13) * 1440 + hour * 60 + minute) * MS_PER_MINUTE + second * MS_PER_SECOND

\* The window keys of the model's logs and the time each is read back as, computed once.
LogKeys == {format(mi * MS_PER_MINUTE) : mi \in LogMinutes}

ParsedLogKeys == [tw \in LogKeys |-> ParseTimeWindow(tw)]

timeWindowToTime(tw) == IF tw \in LogKeys THEN ParsedLogKeys[tw] ELSE ParseTimeWindow(tw)

\* Collation order of the characters of a window key.
CollationOrder == " -:0123456789"

CharRank(c) == IndexOf(CollationOrder, c, 1)

\* a.localeCompare(b): negative, zero or positive, character by character
RECURSIVE CompareText(_, _)
CompareText(a, b) ==
    IF Len(a) = 0 /\ Len(b) = 0 THEN 0
    ELSE IF Len(a) = 0 THEN -1
    ELSE IF Len(b) = 0 THEN 1
    ELSE LET ra == CharRank(SubSeq(a, 1, 1))
             rb == CharRank(SubSeq(b, 1, 1))
         IN IF ra < rb THEN -1
            ELSE IF ra > rb THEN 1
            ELSE CompareText(SubSeq(a, 2, Len(a)), SubSeq(b, 2, Len(b)))

\* The comparisons of the model's window keys, computed once.
ComparedLogKeys == [a \in LogKeys |-> [b \in LogKeys |-> CompareText(a, b)]]

localeCompare(a, b) ==
    IF a \in LogKeys /\ b \in LogKeys THEN ComparedLogKeys[a][b] ELSE CompareText(a, b)

\* strs.join(', ')
RECURSIVE Join(_)
Join(strs) ==
    IF Len(strs) = 0 THEN ""
    ELSE IF Len(strs) = 1 THEN strs[1]
    ELSE strs[1] \o ", " \o Join(Tail(strs))

(***************************************************************************)
(* detectReelsMasking                                                      *)
(***************************************************************************)
\* Minutes around strong messaging evidence in which reels scrolling is suspicious.
timeframeMins == 10

RECURSIVE InsertByTimeWindow(_, _)
InsertByTimeWindow(sorted, stat) ==
    IF sorted = <<>> THEN <<stat>>
    ELSE IF localeCompare(stat.timeWindow, sorted[Len(sorted)].timeWindow) >= 0
         THEN Append(sorted, stat)
         ELSE Append(InsertByTimeWindow(SubSeq(sorted, 1, Len(sorted) - 1), stat),
                     sorted[Len(sorted)])

\* [...timeWindowStats].sort((a, b) => a.timeWindow.localeCompare(b.timeWindow))
RECURSIVE SortByTimeWindow(_)
SortByTimeWindow(ss) ==
    IF ss = <<>> THEN <<>>
    ELSE InsertByTimeWindow(SortByTimeWindow(SubSeq(ss, 1, Len(ss) - 1)), ss[Len(ss)])

hasStrongMessagingEvidence(stat) ==
    \/ (stat.facebookActivity.isMessaging /\ stat.facebookActivity.isMediaTransfer)
    \/ (stat.whatsappActivity.isTextMessage /\ stat.whatsappActivity.callDirection = "incoming")
    \/ stat.whatsappActivity.isMediaTransfer
    \/ stat.facebookActivity.activityScore > 6
    \/ stat.whatsappActivity.activityScore > 6

\* Minutes from window key a to window key b.
timeDiffMins(a, b) == (timeWindowToTime(b) - timeWindowToTime(a)) \div MS_PER_MINUTE

\* Mutant of InTimeframe: a reels window exactly one minute away counts.
InTimeframe_Adjacent(diff) == diff >= 1 /\ diff <= timeframeMins

\* timeDiffMins > 1 && timeDiffMins <= timeframeMins
InTimeframe(diff) == diff > 1 /\ diff <= timeframeMins

\* The reels windows that ended 1-10 minutes before the window at index.
recentReels(sortedStats, index) ==
    LET Recent(otherIndex) ==
            /\ otherIndex < index
            /\ sortedStats[otherIndex].facebookActivity.isReelsScrolling
            /\ InTimeframe(timeDiffMins(sortedStats[otherIndex].timeWindow,
                                        sortedStats[index].timeWindow))
        picked == SelectSeq([i \in DOMAIN sortedStats |-> i], Recent)
    IN [n \in DOMAIN picked |-> sortedStats[picked[n]]]

\* The reels windows that start 1-10 minutes after the window at index.
subsequentReels(sortedStats, index) ==
    LET Subsequent(otherIndex) ==
            /\ otherIndex > index
            /\ sortedStats[otherIndex].facebookActivity.isReelsScrolling
            /\ InTimeframe(timeDiffMins(sortedStats[index].timeWindow,
                                        sortedStats[otherIndex].timeWindow))
        picked == SelectSeq([i \in DOMAIN sortedStats |-> i], Subsequent)
    IN [n \in DOMAIN picked |-> sortedStats[picked[n]]]

\* Mutant of TimingOf: the date part of the key.
TimingOf_DatePart(tw) == SplitAtSpace(tw)[1]

\* timeWindow.split(' ')[1]
TimingOf(tw) == SplitAtSpace(tw)[2]

\* The masking fields of the window at index.
MaskingOf(sortedStats, index) ==
    LET stat   == sortedStats[index]
        before == recentReels(sortedStats, index)
        after  == subsequentReels(sortedStats, index)
        beforeTimings == [n \in DOMAIN before |-> TimingOf(before[n].timeWindow)]
        afterTimings  == [n \in DOMAIN after |-> TimingOf(after[n].timeWindow)]
    IN IF hasStrongMessagingEvidence(stat) /\ (Len(before) > 0 \/ Len(after) > 0)
       THEN [isReelsMasking |-> TRUE,
             maskingEvidence |->
                IF Len(beforeTimings) > 0 /\ Len(afterTimings) > 0
                THEN "Suspicious: Reels stopped at " \o Join(beforeTimings)
                        \o ", resumed at " \o Join(afterTimings)
                ELSE IF Len(beforeTimings) > 0
                THEN "Suspicious: Strong messaging activity "
                        \o ToString(timeDiffMins(before[1].timeWindow, stat.timeWindow))
                        \o "min after Reels stopped"
                ELSE "Suspicious: Reels resumed "
                        \o ToString(timeDiffMins(stat.timeWindow, after[1].timeWindow))
                        \o "min after messaging"]
       ELSE [isReelsMasking |-> FALSE, maskingEvidence |-> ""]

detectReelsMasking(timeWindowStats) ==
    LET sortedStats == SortByTimeWindow(timeWindowStats)
    IN [index \in DOMAIN sortedStats |-> sortedStats[index] @@ MaskingOf(sortedStats, index)]

(***************************************************************************)
(* calculateTimeWindowStats                                                *)
(***************************************************************************)
IsBlockedEntry(e) == e.isBlocked

\* Mutant of BaseStat: the classifiers of a window receive its allowed entries only.
BaseStat_AllowedOnly(es, key) ==
    LET InWindow(e) == e.timeWindow = key
        IsAllowed(e) == ~e.isBlocked
        we == SelectSeq(es, InWindow)
        ds == Distinct([i \in DOMAIN we |-> we[i].domain])
    IN [timeWindow |-> key,
        totalRequests |-> Len(we),
        blockedRequests |-> Len(SelectSeq(we, IsBlockedEntry)),
        allowedRequests |-> Len(we) - Len(SelectSeq(we, IsBlockedEntry)),
        uniqueDomains |-> Len(ds),
        domains |-> ds,
        relationshipConcerns |-> detectRelationshipConcerns(ds),
        whatsappActivity |-> detectWhatsAppActivity(SelectSeq(we, IsAllowed)),
        facebookActivity |-> detectFacebookActivity(SelectSeq(we, IsAllowed))]

\* Mutant of BaseStat: the classifiers of a window receive the whole log.
BaseStat_WholeLog(es, key) ==
    LET InWindow(e) == e.timeWindow = key
        we == SelectSeq(es, InWindow)
        ds == Distinct([i \in DOMAIN es |-> es[i].domain])
    IN [timeWindow |-> key,
        totalRequests |-> Len(we),
        blockedRequests |-> Len(SelectSeq(we, IsBlockedEntry)),
        allowedRequests |-> Len(we) - Len(SelectSeq(we, IsBlockedEntry)),
        uniqueDomains |-> Len(ds),
        domains |-> ds,
        relationshipConcerns |-> detectRelationshipConcerns(ds),
        whatsappActivity |-> detectWhatsAppActivity(es),
        facebookActivity |-> detectFacebookActivity(es)]

\* The record of one window key before masking detection.
BaseStat(es, key) ==
    LET InWindow(e) == e.timeWindow = key
        we == SelectSeq(es, InWindow)
        ds == Distinct([i \in DOMAIN we |-> we[i].domain])
    IN [timeWindow |-> key,
        totalRequests |-> Len(we),
        blockedRequests |-> Len(SelectSeq(we, IsBlockedEntry)),
        allowedRequests |-> Len(we) - Len(SelectSeq(we, IsBlockedEntry)),
        uniqueDomains |-> Len(ds),
        domains |-> ds,
        relationshipConcerns |-> detectRelationshipConcerns(ds),
        whatsappActivity |-> detectWhatsAppActivity(we),
        facebookActivity |-> detectFacebookActivity(we)]

calculateTimeWindowStats(es) ==
    LET keys == Distinct([i \in DOMAIN es |-> es[i].timeWindow])
        baseStats == [k \in DOMAIN keys |-> BaseStat(es, keys[k])]
    IN detectReelsMasking(baseStats)

(***************************************************************************)
(* Specification SpecStats: a parsed log, newest entry first as            *)
(* deduplicateDNSRecords leaves it, is handed to calculateTimeWindowStats. *)
(***************************************************************************)
NoStats == [fn |-> "none"]

InitStats ==
    /\ entries = <<>>
    /\ stats = NoStats
    /\ windowEntries = <<>>
    /\ activity = NoResult
    /\ domains = <<>>
    /\ concerns = NoConcerns

\* The next line of the log is older than the last one, or has the same timestamp and
\* comes later in the listing order.
AddLogEntry(d, minute) ==
    LET ts == minute * MS_PER_MINUTE
        ListedAfter(last) ==
            \/ last.parsedTimestamp > ts
            \/ /\ last.parsedTimestamp = ts
               /\ LogRank(last.domain) < LogRank(d)
    IN /\ stats = NoStats
       /\ Len(entries) < MaxLog
       /\ IF entries = <<>> THEN TRUE ELSE ListedAfter(entries[Len(entries)])
       /\ entries' = Append(entries, processProcessLogEntry(d, ts))
       /\ UNCHANGED <<stats, windowEntries, activity, domains, concerns>>

CalculateStats ==
    /\ stats = NoStats
    /\ stats' = [fn |-> "stats", result |-> calculateTimeWindowStats(entries)]
    /\ UNCHANGED <<entries, windowEntries, activity, domains, concerns>>

NextStats ==
    \/ \E d \in LogDomains, minute \in LogMinutes : AddLogEntry(d, minute)
    \/ CalculateStats

SpecStats == InitStats /\ [][NextStats]_vars

(***************************************************************************)
(* Claims checked under SpecStats.                                         *)
(***************************************************************************)
\* The minute of the day of the entries that make up the i-th returned window.
WindowMinute(i) ==
    CHOOSE mi \in LogMinutes :
        \E k \in DOMAIN entries :
            /\ entries[k].timeWindow = stats.result[i].timeWindow
            /\ entries[k].parsedTimestamp = mi * MS_PER_MINUTE

MinutesApart(i, j) ==
    IF WindowMinute(i) >= WindowMinute(j) THEN WindowMinute(i) - WindowMinute(j)
    ELSE WindowMinute(j) - WindowMinute(i)

\* Strong messaging evidence as the specification words it.
StrongWhatsAppEvidence(st) ==
    \/ (st.whatsappActivity.isVoiceCall /\ st.whatsappActivity.callDirection = "incoming")
    \/ st.whatsappActivity.isMediaTransfer
    \/ st.whatsappActivity.activityScore > 6

StrongEvidence(st) ==
    \/ (st.facebookActivity.isMessaging /\ st.facebookActivity.isMediaTransfer)
    \/ st.facebookActivity.activityScore > 6
    \/ StrongWhatsAppEvidence(st)

\* C9: a returned window is flagged isReelsMasking exactly when it has strong
\* messaging evidence and some other window flagged isReelsScrolling lies more than
\* 1 and at most 10 minutes before or after it.
C9_MaskingIffStrongNearReels ==
    stats.fn = "stats" =>
        \A i \in DOMAIN stats.result :
            stats.result[i].isReelsMasking <=>
                /\ StrongEvidence(stats.result[i])
                /\ \E j \in DOMAIN stats.result \ {i} :
                      /\ stats.result[j].facebookActivity.isReelsScrolling
                      /\ MinutesApart(i, j) > 1
                      /\ MinutesApart(i, j) <= 10

\* C9 witness: around one reels window, a strong window exactly 1 minute before it is
\* not flagged and a strong window exactly 10 minutes after it is flagged.
C9_Witness ==
    /\ stats.fn = "stats"
    /\ Len(stats.result) = 3
    /\ \E i, j, k \in DOMAIN stats.result :
          /\ stats.result[j].facebookActivity.isReelsScrolling
          /\ WindowMinute(i) + 1 = WindowMinute(j)
          /\ StrongEvidence(stats.result[i]) /\ ~stats.result[i].isReelsMasking
          /\ WindowMinute(k) = WindowMinute(j) + 10
          /\ StrongEvidence(stats.result[k]) /\ stats.result[k].isReelsMasking

\* HH:mm of a minute of the day.
ClockText(mi) == Pad2(mi \div 60) \o ":" \o Pad2(mi % 60)

\* Windows a, b, c: reels, strong WhatsApp evidence 3 minutes later, reels 4 minutes
\* after that.
IsSandwich(a, b, c) ==
    /\ stats.result[a].facebookActivity.isReelsScrolling
    /\ StrongWhatsAppEvidence(stats.result[b])
    /\ stats.result[c].facebookActivity.isReelsScrolling
    /\ WindowMinute(b) = WindowMinute(a) + 3
    /\ WindowMinute(c) = WindowMinute(b) + 4

\* C10: the middle window of a reels / strong WhatsApp (+3 min) / reels (+4 min)
\* sequence is flagged isReelsMasking and its maskingEvidence names the HH:mm of both
\* reels windows; every window that is not flagged has an empty maskingEvidence.
C10_SandwichNamesBothTimes ==
    stats.fn = "stats" =>
        /\ \A a, b, c \in DOMAIN stats.result :
              IsSandwich(a, b, c) =>
                  /\ stats.result[b].isReelsMasking
                  /\ StrIncludes(stats.result[b].maskingEvidence, ClockText(WindowMinute(a)))
                  /\ StrIncludes(stats.result[b].maskingEvidence, ClockText(WindowMinute(c)))
        /\ \A i \in DOMAIN stats.result :
              ~stats.result[i].isReelsMasking => stats.result[i].maskingEvidence = ""

\* C10 witness: the three-window sequence 09:55 / 09:58 / 10:02 was analysed and the
\* middle window carries the evidence text with both times.
C10_Witness ==
    /\ stats.fn = "stats"
    /\ Len(stats.result) = 3
    /\ IsSandwich(1, 2, 3)
    /\ stats.result[2].isReelsMasking
    /\ stats.result[2].maskingEvidence = "Suspicious: Reels stopped at 09:55, resumed at 10:02"

(***************************************************************************)
(* Specification SpecOrder: windows are handed to the classifiers in any   *)
(* order of their entries, and a classified window is classified again.    *)
(***************************************************************************)
\* Domains of the reordered windows: the anchors, signalling entries and uploads
\* that the rules search in time order.
OrderDomains ==
    {APNS_DOMAIN, "g.whatsapp.net", "media-jnb2-1.cdn.whatsapp.net",
     "rupload.facebook.com", "edge-mqtt.facebook.com"}

NextOrder ==
    \/ \E d \in OrderDomains, t \in WindowTimes : AddEntry(d, t)
    \/ DetectWhatsApp
    \/ DetectFacebook
    \/ DetectAgain

SpecOrder == Init /\ [][NextOrder]_vars

(***************************************************************************)
(* Claims checked under SpecOrder.                                         *)
(***************************************************************************)
\* The orders in which n entries can be handed over.
Orderings(n) == {p \in [1..n -> 1..n] : \A i, j \in 1..n : p[i] = p[j] => i = j}

Reordered(es, p) == [i \in 1..Len(es) |-> es[p[i]]]

\* The classifier that produced the current result gives that result for every
\* ordering of the window.
SameForEveryOrdering ==
    /\ activity.fn = "whatsapp" =>
          \A p \in Orderings(Len(windowEntries)) :
              detectWhatsAppActivity(Reordered(windowEntries, p)) = activity.result
    /\ activity.fn = "facebook" =>
          \A p \in Orderings(Len(windowEntries)) :
              detectFacebookActivity(Reordered(windowEntries, p)) = activity.result

\* A classifier call leaves the window as it was, and a second call of the same
\* classifier on it returns the result of the first.
CallLeavesInputAndRepeats ==
    activity' # NoResult =>
        /\ windowEntries' = windowEntries
        /\ (activity.fn = activity'.fn => activity' = activity)

\* C11: the result of either classifier is the same for every ordering of the same
\* entries and for a repeated call, and a call leaves the input array unmodified.
C11_OrderIndependentAndPure ==
    []SameForEveryOrdering /\ [][CallLeavesInputAndRepeats]_vars

\* C11 witness: the WhatsApp classifier ran on a window that was handed over out of
\* time order (signalling at T+7s listed before the anchor at T, then an upload) and
\* returned a non-trivial result.
C11_Witness ==
    /\ activity.fn = "whatsapp"
    /\ Len(windowEntries) = 3
    /\ windowEntries[1] = Entry("g.whatsapp.net", 7000)
    /\ windowEntries[2] = Entry(APNS_DOMAIN, 0)
    /\ windowEntries[3].parsedTimestamp = 0
    /\ activity.result.activityScore > 0

(***************************************************************************)
(* Specification SpecMixedStats: as SpecStats, for logs that mix messaging *)
(* traffic with relationship-concern domains.                              *)
(***************************************************************************)
NextMixedStats ==
    \/ \E d \in MixedLogDomains, minute \in MixedLogMinutes : AddLogEntry(d, minute)
    \/ CalculateStats

SpecMixedStats == InitStats /\ [][NextMixedStats]_vars

(***************************************************************************)
(* Claims checked under SpecMixedStats.                                    *)
(***************************************************************************)
\* The log without the entries of other window keys.
EntriesOfKey(key) ==
    LET HasKey(e) == e.timeWindow = key
    IN SelectSeq(entries, HasKey)

\* C12: the whatsappActivity, facebookActivity and relationshipConcerns of a returned
\* window are those calculateTimeWindowStats returns for the log that holds only the
\* entries of that window's key, whatever the log holds under other keys.
C12_WindowLocal ==
    stats.fn = "stats" =>
        \A i \in DOMAIN stats.result :
            LET alone == calculateTimeWindowStats(EntriesOfKey(stats.result[i].timeWindow))
            IN /\ Len(alone) = 1
               /\ alone[1].whatsappActivity = stats.result[i].whatsappActivity
               /\ alone[1].facebookActivity = stats.result[i].facebookActivity
               /\ alone[1].relationshipConcerns = stats.result[i].relationshipConcerns

\* C12 witness: a log with three windows was analysed: one with WhatsApp media
\* activity only, one with reels scrolling and a dating domain, one with webex.com.
C12_Witness ==
    /\ stats.fn = "stats"
    /\ Len(stats.result) = 3
    /\ \E i, j, k \in DOMAIN stats.result :
          /\ stats.result[i].whatsappActivity.isMediaTransfer
          /\ stats.result[i].facebookActivity.activityScore = 0
          /\ stats.result[i].relationshipConcerns.concernScore = 0
          /\ stats.result[j].facebookActivity.isReelsScrolling
          /\ stats.result[j].relationshipConcerns.concernScore = 10
          /\ stats.result[k].relationshipConcerns.concernScore = 6

(***************************************************************************)
(* Further claims checked under SpecConcerns.                              *)
(***************************************************************************)
\* The patterns of category k that some non-excluded domain of the window contains.
MatchedPatterns(kept, k) == UNION {Range(PatternsIn(kept[i], k)) : i \in DOMAIN kept}

Reverse(s) == [i \in 1..Len(s) |-> s[Len(s) + 1 - i]]

\* A category list holds exactly the matched patterns of its category, each once.
ListsEachMatchOnce(r, ds) ==
    LET kept == WithoutExcluded(ds)
    IN \A k \in {"datingApps", "anonymousPlatforms", "alternativeMessaging",
                 "videoCalling", "socialMessaging"} :
          LET matched == MatchedPatterns(kept, k)
          IN /\ Range(r[k]) = matched
             /\ Len(r[k]) = Cardinality(matched)

\* C13: concernScore is 10, 8, 6, 4 and 2 times the lengths of the dating, anonymous,
\* alternative-messaging, video-calling and social lists; each list holds every matched
\* pattern once, however many domains match it; the score is the same for the domains
\* in reverse order.
C13_WeightedDistinctMatches ==
    concerns.fn = "concerns" =>
        /\ concerns.result.concernScore =
              10 * Len(concerns.result.datingApps)
              + 8 * Len(concerns.result.anonymousPlatforms)
              + 6 * Len(concerns.result.alternativeMessaging)
              + 4 * Len(concerns.result.videoCalling)
              + 2 * Len(concerns.result.socialMessaging)
        /\ ListsEachMatchOnce(concerns.result, domains)
        /\ detectRelationshipConcerns(Reverse(domains)).concernScore
              = concerns.result.concernScore

\* C13 witness: two hosts of one dating app and a domain listed in two categories were
\* scored: the dating pattern counts once, jami.net once per category.
C13_Witness ==
    /\ concerns.fn = "concerns"
    /\ {"tinder.com", "www.tinder.com", "jami.net"} \subseteq Range(domains)
    /\ concerns.result.datingApps = <<"tinder.com">>
    /\ concerns.result.concernScore >= 20

(***************************************************************************)
(* Specification SpecPatterns: hasDomainPattern and countDomainPattern are *)
(* applied to windows whose domains are spelled in lower or mixed case.    *)
(***************************************************************************)
\* Domains of the pattern-matcher windows: two hosts as a resolver log spells them,
\* and the same hosts with capital letters.
CaseDomains ==
    {"g.whatsapp.net", "G.WhatsApp.NET", "mmg.whatsapp.net", "rupload.facebook.com",
     "Rupload.Facebook.com"}

\* Pattern lists handed to the pattern matcher.
PatternLists ==
    {WHATSAPP_ACTIVITY_INDICATORS.signalling, WHATSAPP_ACTIVITY_INDICATORS.core,
     FACEBOOK_ACTIVITY_INDICATORS.mediaUpload, FACEBOOK_ACTIVITY_INDICATORS.core}

MatchPatterns(patterns) ==
    /\ activity = NoResult
    /\ activity' = [fn |-> "patterns", patterns |-> patterns,
                    has |-> hasDomainPattern(windowEntries, patterns),
                    count |-> countDomainPattern(windowEntries, patterns)]
    /\ UNCHANGED <<windowEntries, domains, concerns, entries, stats>>

NextPatterns ==
    \/ \E d \in CaseDomains : AddEntry(d, 0)
    \/ \E patterns \in PatternLists : MatchPatterns(patterns)

SpecPatterns == Init /\ [][NextPatterns]_vars

(***************************************************************************)
(* Claims checked under SpecPatterns.                                      *)
(***************************************************************************)
UpperCaseLetters == "ABCDEFGHIJKLMNOPQRSTUVWXYZ"

LowerCaseLetters == "abcdefghijklmnopqrstuvwxyz"

\* The text with every capital letter replaced by its small letter.
RECURSIVE LowerCased(_)
LowerCased(s) ==
    IF Len(s) = 0 THEN ""
    ELSE LET c == SubSeq(s, 1, 1)
             i == IndexOf(UpperCaseLetters, c, 1)
         IN (IF i = 0 THEN c ELSE SubSeq(LowerCaseLetters, i, i))
               \o LowerCased(SubSeq(s, 2, Len(s)))

\* Some domain of the window contains some pattern when letter case is ignored.
MatchesIgnoringCase(es, patterns) ==
    \E d \in DomainsOf(es) : \E p \in Range(patterns) :
        StrIncludes(LowerCased(d), LowerCased(p))

\* C14 (as stated): hasDomainPattern is true whenever some domain contains some
\* pattern with letter case ignored, and it is true exactly when countDomainPattern
\* is greater than 0.
C14_CaseNormalizedMatch ==
    activity.fn = "patterns" =>
        /\ MatchesIgnoringCase(windowEntries, activity.patterns) => activity.has
        /\ activity.has <=> activity.count > 0

(***************************************************************************)
(* Specification SpecCall: the WhatsApp classifier on chronological        *)
(* windows whose timestamps sit on the edges of the call, interference and *)
(* voice-note intervals.                                                   *)
(***************************************************************************)
\* Domains of the call windows, in the order equal-time entries are logged.
CallWindowOrder ==
    <<APNS_DOMAIN, "g.whatsapp.net", "rupload.facebook.com", "mmg.whatsapp.net",
      "media-jnb2-1.cdn.whatsapp.net", NETSEER_DOMAIN>>

CallWindowDomains == Range(CallWindowOrder)

CallRank(d) == CHOOSE i \in DOMAIN CallWindowOrder : CallWindowOrder[i] = d

\* Timestamps (ms): T, T+5s, T+15s, T+16s and T+136s (120s after T+16s).
CallWindowTimes == {0, 5000, 15000, 16000, 136000}

\* Longest call window.
MaxCallWindow == 4

AddCallEntry(d, t) ==
    LET LoggedBefore(e) ==
            \/ e.parsedTimestamp < t
            \/ e.parsedTimestamp = t /\ CallRank(e.domain) <= CallRank(d)
    IN /\ activity = NoResult
       /\ Len(windowEntries) < MaxCallWindow
       /\ IF windowEntries = <<>> THEN TRUE
          ELSE LoggedBefore(windowEntries[Len(windowEntries)])
       /\ windowEntries' = Append(windowEntries, Entry(d, t))
       /\ UNCHANGED <<activity, domains, concerns, entries, stats>>

NextCall ==
    \/ \E d \in CallWindowDomains, t \in CallWindowTimes : AddCallEntry(d, t)
    \/ DetectWhatsApp

SpecCall == Init /\ [][NextCall]_vars

(***************************************************************************)
(* Claims checked under SpecCall.                                          *)
(***************************************************************************)
\* e lies between `before` ms before and `after` ms after the entry a, bounds included.
Around(e, a, before, after) ==
    /\ e.parsedTimestamp - a.parsedTimestamp >= -before
    /\ e.parsedTimestamp - a.parsedTimestamp <= after

\* The push anchors that have signalling in -10s..+5s and no rupload / edge-mqtt
\* event in -10s..+15s.
CallAnchors(es) ==
    {a \in Range(es) :
        /\ IsAPNs(a)
        /\ \E s \in Range(es) : IsSignalling(s) /\ Around(s, a, 10000, 5000)
        /\ ~\E f \in Range(es) :
              /\ \/ Includes(f.domain, "rupload.facebook.com")
                 \/ Includes(f.domain, "edge-mqtt.facebook.com")
              /\ Around(f, a, 10000, 15000)}

\* What the upload rules add to the score of a call: 6 for mmg.whatsapp.net, 3 for
\* the complete upload sequence and 2 for the persistent connection.
UploadScore(es) ==
    IF \E e \in Range(es) : Includes(e.domain, "mmg.whatsapp.net")
    THEN 6 + 2 + (IF /\ \E e \in Range(es) : IsWhatsAppMediaCDN(e)
                     /\ \E e \in Range(es) : Includes(e.domain, "static.whatsapp.net")
                     /\ \E e \in Range(es) : Includes(e.domain, "dit.whatsapp.net")
                  THEN 3 ELSE 0)
    ELSE 0

SignallingThenMedia(es) ==
    {s \in Range(es) :
        /\ IsSignalling(s)
        /\ \E c \in Range(es) :
              /\ IsWhatsAppMediaCDN(c)
              /\ c.parsedTimestamp > s.parsedTimestamp
              /\ c.parsedTimestamp - s.parsedTimestamp <= 120000}

\* A push anchor lies within the 15s before the entry s.
AnchorWithin15sBefore(es, s) ==
    \E a \in Range(es) : IsAPNs(a) /\ Around(a, s, 15000, 0)

\* The direction the voice-note rule takes from a signalling entry.
DirectionOf(es, s) == IF AnchorWithin15sBefore(es, s) THEN "incoming" ELSE "outgoing"

\* The earliest signalling entries that a media-CDN fetch follows.
EarliestSignallingThenMedia(es) ==
    {s \in SignallingThenMedia(es) :
        \A o \in SignallingThenMedia(es) : s.parsedTimestamp <= o.parsedTimestamp}

\* The window holds the reels marker and neither a push anchor nor an upload.
ReelsSuppressed(es) ==
    /\ \E e \in Range(es) : IsNetSeer(e)
    /\ ~\E e \in Range(es) : IsAPNs(e) \/ Includes(e.domain, "mmg.whatsapp.net")

C17_CallExcludesMediaTransfer ==
    activity.fn = "whatsapp" =>
        ~(activity.result.isVoiceCall /\ activity.result.isMediaTransfer)

(***************************************************************************)
(* Further claims checked under SpecFacebook.                              *)
(***************************************************************************)
\* The window holds a media upload or download domain.
HasFacebookMedia(es) ==
    \E d \in DomainsOf(es) :
        \/ Includes(d, "rupload.facebook.com")
        \/ Includes(d, "scontent.") \/ Includes(d, ".fbcdn.net") \/ Includes(d, ".fbsbx.com")

\* C18: in every result of the Facebook classifier isMediaTransfer implies
\* isMessaging; a window with an upload or download domain that is not classified as
\* messaging is no media transfer.
C18_MediaTransferOnlyWithMessaging ==
    activity.fn = "facebook" =>
        /\ activity.result.isMediaTransfer => activity.result.isMessaging
        /\ (HasFacebookMedia(windowEntries) /\ ~activity.result.isMessaging)
              => ~activity.result.isMediaTransfer

\* C18 witness: an upload without any messaging context was classified, and is
\* neither messaging nor a media transfer.
C18_Witness ==
    /\ activity.fn = "facebook"
    /\ DomainsOf(windowEntries) = {"rupload.facebook.com", "www.facebook.com"}
    /\ ~activity.result.isMessaging
    /\ ~activity.result.isMediaTransfer

\* The other Facebook events within 5s of the first rupload.facebook.com event.
NearUpload(es) ==
    LET uploads == {i \in DOMAIN es : Includes(es[i].domain, "rupload.facebook.com")}
        first == CHOOSE i \in uploads :
                    \A j \in uploads : es[i].parsedTimestamp <= es[j].parsedTimestamp
    IN IF uploads = {} THEN {}
       ELSE {i \in FacebookEvents(es) \ uploads :
                /\ es[i].parsedTimestamp - es[first].parsedTimestamp <= 5000
                /\ es[first].parsedTimestamp - es[i].parsedTimestamp <= 5000}

HasUpload(es) == \E i \in DOMAIN es : Includes(es[i].domain, "rupload.facebook.com")

IsBurst(es) == HasUpload(es) /\ Cardinality(NearUpload(es)) >= 6

IsIsolated(es) == HasUpload(es) /\ Cardinality(NearUpload(es)) <= 2

\* The same domains in the same order, one event every `gap` ms.
Retimed(es, gap) == [i \in DOMAIN es |-> Entry(es[i].domain, (i - 1) * gap)]

\* a has a lower score or a weaker classification than b.
WeakerThan(a, b) ==
    \/ a.activityScore < b.activityScore
    \/ b.isMessaging /\ ~a.isMessaging
    \/ b.isMediaTransfer /\ ~a.isMediaTransfer

\* C19 (as stated): of two windows with the same domains, one a burst around the
\* upload and one with the upload isolated, the burst window gets the lower score
\* or the weaker classification.
C19_BurstRanksBelowIsolated ==
    (activity.fn = "facebook" /\ IsBurst(windowEntries)) =>
        \A gap \in WindowGaps :
            IsIsolated(Retimed(windowEntries, gap)) =>
                WeakerThan(activity.result,
                           detectFacebookActivity(Retimed(windowEntries, gap)))

\* The window holds pm.facebook.com and edge-mqtt.facebook.com, no media upload or
\* download domain and no reels marker.
TextSendWindow(es) ==
    /\ {"pm.facebook.com", "edge-mqtt.facebook.com"} \subseteq DomainsOf(es)
    /\ ~HasFacebookMedia(es)
    /\ \A d \in DomainsOf(es) :
          \A i \in DOMAIN FACEBOOK_ACTIVITY_INDICATORS.reelsVideo :
              ~Includes(d, FACEBOOK_ACTIVITY_INDICATORS.reelsVideo[i])

HasLaunchDomain(es) ==
    \E d \in DomainsOf(es) :
        \E p \in {"www.facebook.com", "web.facebook.com", "m.facebook.com",
                  "gateway.facebook.com", "graph.facebook.com", "api.facebook.com",
                  "star.fallback.c10r.facebook.com", "lookaside.facebook.com"} :
            Includes(d, p)

IsolatedDomains ==
    {"edge-mqtt.facebook.com", APNS_DOMAIN, "www.facebook.com", "chat-e2ee.facebook.com",
     "star.fallback.c10r.facebook.com", "graph.facebook.com", "pm.facebook.com"}

NextIsolated ==
    \/ \E d \in IsolatedDomains, t \in WindowTimes : AddEntry(d, t)
    \/ DetectFacebook

SpecIsolated == Init /\ [][NextIsolated]_vars

(***************************************************************************)
(* Claims checked under SpecIsolated.                                      *)
(***************************************************************************)
IsMqttEvent(e) == Includes(e.domain, "edge-mqtt.facebook.com")

\* A Facebook event that is neither realtime messaging, text send nor upload.
IsOtherFacebookEvent(e) ==
    /\ Includes(e.domain, "facebook")
    /\ ~IsMqttEvent(e)
    /\ ~Includes(e.domain, "pm.facebook.com") /\ ~Includes(e.domain, "web.facebook.com")
    /\ ~Includes(e.domain, "rupload.facebook.com")

\* The window holds edge-mqtt.facebook.com events, at most one other Facebook event
\* and push anchors, and nothing else.
IsolatedMqttWindow(es) ==
    /\ \E i \in DOMAIN es : IsMqttEvent(es[i])
    /\ \A i \in DOMAIN es : IsMqttEvent(es[i]) \/ IsOtherFacebookEvent(es[i]) \/ IsAPNs(es[i])
    /\ Cardinality({i \in DOMAIN es : IsOtherFacebookEvent(es[i])}) <= 1

HasAnchor(es) == \E i \in DOMAIN es : IsAPNs(es[i])

\* C21: on such a window isMessaging is true exactly when a push anchor is present;
\* without one the window is no messaging and scores exactly 1.
C21_IsolatedMqttNeedsAnchor ==
    (activity.fn = "facebook" /\ IsolatedMqttWindow(windowEntries)) =>
        /\ activity.result.isMessaging <=> HasAnchor(windowEntries)
        /\ ~HasAnchor(windowEntries) =>
              /\ ~activity.result.isMessaging
              /\ activity.result.activityScore = 1

\* C21 witness: three edge-mqtt.facebook.com events and no anchor (more than two
\* core events, so only the floor gives the score) were classified: score 1.
C21_Witness ==
    /\ activity.fn = "facebook"
    /\ Len(windowEntries) = 3
    /\ \A i \in DOMAIN windowEntries : windowEntries[i].domain = "edge-mqtt.facebook.com"
    /\ ~activity.result.isMessaging
    /\ ~activity.result.isBackgroundRefresh
    /\ activity.result.activityScore = 1

(***************************************************************************)
(* Specification SpecReels: the Facebook classifier on windows that mix    *)
(* the NetSeer marker with messaging, call and Instagram domains.          *)
(***************************************************************************)
ReelsDomains ==
    {NETSEER_DOMAIN, "www.facebook.com", APNS_DOMAIN, "rupload.facebook.com",
     "chat-e2ee.facebook.com", "edge-mqtt.facebook.com", "external.xx.fbcdn.net",
     "www.instagram.com"}

NextReels ==
    \/ \E d \in ReelsDomains, t \in WindowTimes : AddEntry(d, t)
    \/ DetectFacebook

SpecReels == Init /\ [][NextReels]_vars

(***************************************************************************)
(* Claims checked under SpecReels.                                         *)
(***************************************************************************)
\* The window holds a NetSeer marker and a Facebook core domain.
NetSeerWithCore(es) ==
    /\ \E d \in DomainsOf(es) : StrIncludes(d, "-netseer-ipaddr-assoc.")
    /\ \E d \in DomainsOf(es) :
          \/ StrIncludes(d, "facebook.com")
          \/ StrIncludes(d, "messenger.com")
          \/ StrIncludes(d, "instagram.com")

\* C22: every window with a NetSeer marker and a Facebook core domain is returned as
\* reels scrolling with background refresh and score 3, everything else false, also
\* with anchors, uploads, messaging, STUN or Instagram domains in the window.
C22_NetSeerOverridesEverything ==
    (activity.fn = "facebook" /\ NetSeerWithCore(windowEntries)) =>
        activity.result =
            [isReelsScrolling |-> TRUE, isBackgroundRefresh |-> TRUE,
             isMessaging |-> FALSE, isMediaTransfer |-> FALSE, isCall |-> FALSE,
             isInstagramActivity |-> FALSE, activityScore |-> 3]

\* C22 witness: the marker with a STUN host and an Instagram host was classified.
C22_Witness ==
    /\ activity.fn = "facebook"
    /\ DomainsOf(windowEntries) =
          {NETSEER_DOMAIN, "external.xx.fbcdn.net", "www.instagram.com"}
    /\ activity.result.isReelsScrolling
    /\ ~activity.result.isCall
    /\ ~activity.result.isInstagramActivity

(***************************************************************************)
(* Specification SpecDevices: a log of allowed and blocked queries of two  *)
(* devices is handed to calculateTimeWindowStats.                          *)
(***************************************************************************)
DeviceLogDomains == {APNS_DOMAIN, "g.whatsapp.net", "www.tinder.com"}

DeviceLogMinutes == {595, 596}

RowStatuses == {"default", "blocked"}

DeviceNames == {"iPhone", "iPad"}

\* Longest two-device log.
MaxDeviceLog == 3

\* The next row of the log is not newer than the last one.
AddDeviceEntry(d, minute, status, device) ==
    LET ts == minute * MS_PER_MINUTE
    IN /\ stats = NoStats
       /\ Len(entries) < MaxDeviceLog
       /\ IF entries = <<>> THEN TRUE ELSE entries[Len(entries)].parsedTimestamp >= ts
       /\ entries' = Append(entries,
                            processLogRow([domain |-> d, timestamp |-> ts,
                                           status |-> status, device_name |-> device]))
       /\ UNCHANGED <<stats, windowEntries, activity, domains, concerns>>

NextDevices ==
    \/ \E d \in DeviceLogDomains, minute \in DeviceLogMinutes,
          status \in RowStatuses, device \in DeviceNames :
            AddDeviceEntry(d, minute, status, device)
    \/ CalculateStats

SpecDevices == InitStats /\ [][NextDevices]_vars

(***************************************************************************)
(* Claims checked under SpecDevices.                                       *)
(***************************************************************************)
LogKeysOf(es) == {es[i].timeWindow : i \in DOMAIN es}

\* C23: one record per distinct window key; the classifiers of a record get all
\* entries of its key, every device and blocked entries included; totalRequests is
\* the number of those entries and blocked + allowed = total.
C23_OneRecordPerKeyAllEntries ==
    stats.fn = "stats" =>
        /\ Len(stats.result) = Cardinality(LogKeysOf(entries))
        /\ {stats.result[i].timeWindow : i \in DOMAIN stats.result} = LogKeysOf(entries)
        /\ \A i \in DOMAIN stats.result :
              LET r  == stats.result[i]
                  we == EntriesOfKey(r.timeWindow)
              IN /\ r.totalRequests = Len(we)
                 /\ r.blockedRequests = Cardinality({n \in DOMAIN we : we[n].isBlocked})
                 /\ r.blockedRequests + r.allowedRequests = r.totalRequests
                 /\ r.whatsappActivity = detectWhatsAppActivity(we)
                 /\ r.facebookActivity = detectFacebookActivity(we)
                 /\ r.relationshipConcerns
                       = detectRelationshipConcerns(Distinct([n \in DOMAIN we |-> we[n].domain]))

\* C23 witness: one minute holds a blocked signalling query of one device and a push
\* anchor of the other; the window counts both and reports the incoming call.
C23_Witness ==
    /\ stats.fn = "stats"
    /\ Len(stats.result) = 2
    /\ \E i \in DOMAIN stats.result :
          LET we == EntriesOfKey(stats.result[i].timeWindow)
          IN /\ Len(we) = 2
             /\ \E a, b \in DOMAIN we :
                   /\ we[a].domain = "g.whatsapp.net" /\ we[a].isBlocked
                   /\ we[b].domain = APNS_DOMAIN /\ ~we[b].isBlocked
                   /\ we[a].device_name # we[b].device_name
             /\ stats.result[i].totalRequests = 2
             /\ stats.result[i].blockedRequests = 1
             /\ stats.result[i].whatsappActivity.isVoiceCall

(***************************************************************************)
(* Invariants of the WhatsApp result, checked under Spec.                  *)
(***************************************************************************)
\* C24: in every WhatsApp result isMediaTransfer implies isTextMessage: a media
\* transfer always scores 4 or more before the persistence boost, which then sets the
\* text-message flag and adds 2.
C24_MediaTransferImpliesText ==
    activity.fn = "whatsapp" =>
        (activity.result.isMediaTransfer =>
            /\ activity.result.isTextMessage
            /\ activity.result.activityScore >= 4 + 2)

\* C24 witness: a window with a media-CDN fetch only (media received, +4) was
\* classified: media transfer and text message, score 6.
C24_Witness ==
    /\ activity.fn = "whatsapp"
    /\ DomainsOf(windowEntries) = {"media-jnb2-1.cdn.whatsapp.net"}
    /\ activity.result.isMediaTransfer
    /\ activity.result.isTextMessage
    /\ activity.result.activityScore = 6

\* The window holds a WhatsApp core or signalling domain.
HasWhatsAppDomain(es) ==
    \E d \in DomainsOf(es) :
        \/ \E i \in DOMAIN WHATSAPP_ACTIVITY_INDICATORS.core :
              Includes(d, WHATSAPP_ACTIVITY_INDICATORS.core[i])
        \/ \E i \in DOMAIN WHATSAPP_ACTIVITY_INDICATORS.signalling :
              Includes(d, WHATSAPP_ACTIVITY_INDICATORS.signalling[i])

\* The ongoing-video suppression applies: NetSeer marker, no anchor and no upload.
VideoSuppressed(es) ==
    /\ \E d \in DomainsOf(es) : Includes(d, "-netseer-ipaddr-assoc.")
    /\ ~\E d \in DomainsOf(es) :
          \/ Includes(d, "courier") /\ Includes(d, "push.apple.com")
          \/ Includes(d, "mmg.whatsapp.net")

\* C25: the flags are all false exactly when the score is 0 or 1; a set flag implies
\* score >= 4 and a call score >= 8; the score is 0 only for a window without a
\* core/signalling domain or under the ongoing-video suppression.
C25_ScoreAgreesWithFlags ==
    activity.fn = "whatsapp" =>
        LET r == activity.result
            anyFlag == r.isTextMessage \/ r.isMediaTransfer \/ r.isVoiceCall
        IN /\ ~anyFlag <=> r.activityScore \in {0, 1}
           /\ anyFlag => r.activityScore >= 4
           /\ r.isVoiceCall => r.activityScore >= 8
           /\ r.activityScore = 0 =>
                 ~HasWhatsAppDomain(windowEntries) \/ VideoSuppressed(windowEntries)

\* C25 witness: a lone signalling event was classified: no flag, score 1 by the floor.
C25_Witness ==
    /\ activity.fn = "whatsapp"
    /\ DomainsOf(windowEntries) = {"g.whatsapp.net"}
    /\ ~activity.result.isTextMessage
    /\ ~activity.result.isMediaTransfer
    /\ ~activity.result.isVoiceCall
    /\ activity.result.activityScore = 1

(***************************************************************************)
(* Specification SpecLaunch: the Facebook classifier on windows that mix   *)
(* the launch quartet with call, Instagram, reels and background domains.  *)
(***************************************************************************)
LaunchWindowOrder ==
    <<APNS_DOMAIN, "edge-mqtt.facebook.com", "graph.facebook.com",
      "gateway.facebook.com", "www.facebook.com", "pm.facebook.com",
      "external.xx.fbcdn.net", "www.instagram.com", NETSEER_DOMAIN,
      "connect.facebook.net", "rupload.facebook.com">>

InitLaunch ==
    /\ \E S \in SUBSET Range(LaunchWindowOrder), gap \in WindowGaps :
          LET Chosen(d) == d \in S
          IN windowEntries = BuildWindow(SelectSeq(LaunchWindowOrder, Chosen), gap)
    /\ activity = NoResult
    /\ domains = <<>>
    /\ concerns = NoConcerns
    /\ entries = <<>>
    /\ stats = <<>>

SpecLaunch == InitLaunch /\ [][NextFacebook]_vars

(***************************************************************************)
(* Claims checked under SpecLaunch.                                        *)
(***************************************************************************)
\* C26: in every Facebook result isBackgroundRefresh implies no messaging, no media
\* transfer, no call and no Instagram activity, and a score of 1 or 3.
C26_BackgroundExcludesActivity ==
    activity.fn = "facebook" =>
        (activity.result.isBackgroundRefresh =>
            /\ ~activity.result.isMessaging
            /\ ~activity.result.isMediaTransfer
            /\ ~activity.result.isCall
            /\ ~activity.result.isInstagramActivity
            /\ activity.result.activityScore \in {1, 3})

\* C26 witness: the launch quartet with an Instagram host (and no media) was
\* classified as an app launch: background refresh, score 1, no Instagram activity.
C26_Witness ==
    /\ activity.fn = "facebook"
    /\ LaunchQuartet \cup {"www.instagram.com"} \subseteq DomainsOf(windowEntries)
    /\ activity.result.isBackgroundRefresh
    /\ ~activity.result.isReelsScrolling
    /\ activity.result.activityScore = 1

\* The window holds a Facebook core domain.
HasFacebookCore(es) ==
    \E d \in DomainsOf(es) :
        \/ StrIncludes(d, "facebook.com")
        \/ StrIncludes(d, "messenger.com")
        \/ StrIncludes(d, "instagram.com")

\* C27: the Facebook score is 1 or more exactly when the window holds a core domain;
\* without one it is 0.
C27_ScoreIffCoreDomain ==
    activity.fn = "facebook" =>
        /\ activity.result.activityScore >= 1 <=> HasFacebookCore(windowEntries)
        /\ ~HasFacebookCore(windowEntries) => activity.result.activityScore = 0

\* C27 witness: three core hosts without any activity pattern were classified: no
\* flag, and the floor gives score 1.
C27_Witness ==
    /\ activity.fn = "facebook"
    /\ HasFacebookCore(windowEntries)
    /\ ~activity.result.isMessaging
    /\ ~activity.result.isBackgroundRefresh
    /\ ~activity.result.isReelsScrolling
    /\ ~activity.result.isCall
    /\ ~activity.result.isInstagramActivity
    /\ activity.result.activityScore = 1

(***************************************************************************)
(* Specification SpecBoundary: a log whose events lie a few seconds apart  *)
(* on both sides of a minute boundary is handed to calculateTimeWindowStats.*)
(***************************************************************************)
BoundaryLogOrder == <<APNS_DOMAIN, "g.whatsapp.net", "rupload.facebook.com">>

\* Timestamps (ms): 09:55:58, 09:56:01 and 09:56:03.
BoundaryLogTimes ==
    {595 * MS_PER_MINUTE + 58 * MS_PER_SECOND, 596 * MS_PER_MINUTE + MS_PER_SECOND,
     596 * MS_PER_MINUTE + 3 * MS_PER_SECOND}

\* Longest boundary log.
MaxBoundaryLog == 3

BoundaryRank(d) == CHOOSE i \in DOMAIN BoundaryLogOrder : BoundaryLogOrder[i] = d

\* The next line of the log is older than the last one, or has the same timestamp and
\* comes later in the listing order.
AddBoundaryEntry(d, ts) ==
    LET ListedAfter(last) ==
            \/ last.parsedTimestamp > ts
            \/ /\ last.parsedTimestamp = ts
               /\ BoundaryRank(last.domain) < BoundaryRank(d)
    IN /\ stats = NoStats
       /\ Len(entries) < MaxBoundaryLog
       /\ IF entries = <<>> THEN TRUE ELSE ListedAfter(entries[Len(entries)])
       /\ entries' = Append(entries, processProcessLogEntry(d, ts))
       /\ UNCHANGED <<stats, windowEntries, activity, domains, concerns>>

NextBoundary ==
    \/ \E d \in Range(BoundaryLogOrder), ts \in BoundaryLogTimes : AddBoundaryEntry(d, ts)
    \/ CalculateStats

SpecBoundary == InitStats /\ [][NextBoundary]_vars

(***************************************************************************)
(* Claims checked under SpecBoundary.                                      *)
(***************************************************************************)
\* The log holds a push anchor followed within 5s by a signalling event, with no
\* rupload / edge-mqtt event between 10s before and 15s after the anchor.
AnchorThenSignallingInLog(es) ==
    \E a \in Range(es) :
        /\ IsAPNs(a)
        /\ \E g \in Range(es) :
              /\ IsSignalling(g)
              /\ g.parsedTimestamp >= a.parsedTimestamp
              /\ g.parsedTimestamp - a.parsedTimestamp <= 5000
        /\ ~\E f \in Range(es) :
              /\ \/ Includes(f.domain, "rupload.facebook.com")
                 \/ Includes(f.domain, "edge-mqtt.facebook.com")
              /\ Around(f, a, 10000, 15000)

\* C28 (as stated): whenever the log holds such a pair, some window reports an
\* incoming WhatsApp call, wherever the pair falls relative to a minute boundary.
C28_CallFoundAcrossMinuteBoundary ==
    (stats.fn = "stats" /\ AnchorThenSignallingInLog(entries)) =>
        \E i \in DOMAIN stats.result :
            /\ stats.result[i].whatsappActivity.isVoiceCall
            /\ stats.result[i].whatsappActivity.callDirection = "incoming"

(***************************************************************************)
(* Specification SpecMasking: detectReelsMasking is applied to window      *)
(* records that arrive in any order.                                       *)
(***************************************************************************)
\* The windows the records come from: reels scrolling, an incoming call, a lone
\* signalling event.
MaskingWindows ==
    [reels  |-> <<NETSEER_DOMAIN, "rupload.facebook.com">>,
     strong |-> <<APNS_DOMAIN, "g.whatsapp.net">>,
     weak   |-> <<"g.whatsapp.net">>]

MaskingMinutes == {595, 596, 598}

\* The record calculateTimeWindowStats builds for such a window, before masking.
MaskingStats ==
    [kind \in DOMAIN MaskingWindows |->
        [minute \in MaskingMinutes |->
            LET ds == MaskingWindows[kind]
                es == [i \in DOMAIN ds |-> processProcessLogEntry(ds[i], minute * MS_PER_MINUTE)]
            IN BaseStat(es, format(minute * MS_PER_MINUTE))]]

\* Most records handed to detectReelsMasking.
MaxStats == 3

\* Mutant of StatsAfterMasking: the caller's array is sorted in place.
StatsAfterMasking_SortedInPlace(timeWindowStats) == SortByTimeWindow(timeWindowStats)

\* The caller's array after detectReelsMasking: the function sorts a spread copy and
\* maps it to new objects ({...stat, ...}), so the array and its records stay as given.
StatsAfterMasking(timeWindowStats) == timeWindowStats

InitMasking ==
    /\ stats = [fn |-> "base", records |-> <<>>]
    /\ entries = <<>>
    /\ windowEntries = <<>>
    /\ activity = NoResult
    /\ domains = <<>>
    /\ concerns = NoConcerns

AddStat(kind, minute) ==
    /\ stats.fn = "base"
    /\ Len(stats.records) < MaxStats
    /\ stats' = [stats EXCEPT !.records = Append(@, MaskingStats[kind][minute])]
    /\ UNCHANGED <<entries, windowEntries, activity, domains, concerns>>

DetectMasking ==
    /\ stats.fn = "base"
    /\ stats' = [fn |-> "masked", given |-> stats.records,
                 records |-> StatsAfterMasking(stats.records),
                 result |-> detectReelsMasking(stats.records)]
    /\ UNCHANGED <<entries, windowEntries, activity, domains, concerns>>

NextMasking ==
    \/ \E kind \in DOMAIN MaskingWindows, minute \in MaskingMinutes : AddStat(kind, minute)
    \/ DetectMasking

SpecMasking == InitMasking /\ [][NextMasking]_vars

(***************************************************************************)
(* Claims checked under SpecMasking.                                       *)
(***************************************************************************)
MaskingFields == {"isReelsMasking", "maskingEvidence"}

\* A returned record without its masking fields.
WithoutMasking(r) == [f \in (DOMAIN r) \ MaskingFields |-> r[f]]

\* C29: detectReelsMasking returns as many records as it was given, ascending by
\* timeWindow; each returned record is an input record plus the two masking fields;
\* the input array and its records are left as they were.
C29_OnlyMaskingFieldsChange ==
    stats.fn = "masked" =>
        /\ Len(stats.result) = Len(stats.given)
        /\ \A i, j \in DOMAIN stats.result :
              i < j => localeCompare(stats.result[i].timeWindow,
                                     stats.result[j].timeWindow) <= 0
        /\ \A i \in DOMAIN stats.result : MaskingFields \subseteq DOMAIN stats.result[i]
        /\ \E p \in Orderings(Len(stats.given)) :
              \A i \in DOMAIN stats.result :
                  WithoutMasking(stats.result[i]) = stats.given[p[i]]
        /\ stats.records = stats.given

\* C29 witness: the records were given newest first (messaging window before the
\* earlier reels window); the result is ascending and flags the messaging window.
C29_Witness ==
    /\ stats.fn = "masked"
    /\ Len(stats.given) = 2
    /\ stats.given[1] = MaskingStats["strong"][598]
    /\ stats.given[2] = MaskingStats["reels"][595]
    /\ stats.result[1].timeWindow = format(595 * MS_PER_MINUTE)
    /\ stats.result[2].isReelsMasking

(***************************************************************************)
(* deduplicateDNSRecords (utils/csv-parser).                               *)
(***************************************************************************)
\* query_type.split(',')
RECURSIVE SplitTypes(_)
SplitTypes(s) ==
    LET commas == {i \in 1..Len(s) : SubSeq(s, i, i) = ","}
    IN IF commas = {} THEN <<s>>
       ELSE LET c == CHOOSE i \in commas : \A j \in commas : i <= j
            IN <<SubSeq(s, 1, c - 1)>> \o SplitTypes(SubSeq(s, c + 1, Len(s)))

\* types.join(',')
RECURSIVE JoinTypes(_)
JoinTypes(ts) ==
    IF Len(ts) = 1 THEN ts[1] ELSE ts[1] \o "," \o JoinTypes(Tail(ts))

\* priority[query_type] || 99
QueryPriority(query_type) ==
    CASE query_type = "A"     -> 1
      [] query_type = "AAAA"  -> 2
      [] query_type = "HTTPS" -> 3
      [] OTHER                -> 99

BucketMs == 30000

\* `${entry.domain}_${roundedTime}`
DedupKey(entry) ==
    entry.domain \o "_" \o ToString((entry.parsedTimestamp \div BucketMs) * BucketMs)

\* existing.query_type after the "combine query types" step
CombinedTypes(existing, entry) ==
    LET existingTypes == SplitTypes(existing.query_type)
    IN IF \E i \in DOMAIN existingTypes : existingTypes[i] = entry.query_type
       THEN existing.query_type
       ELSE JoinTypes(Append(existingTypes, entry.query_type))

\* newPriority < existingPriority, the priority of the stored entry being looked up
\* under its current (possibly combined) query_type
DedupReplaces(existing, entry) ==
    QueryPriority(entry.query_type) < QueryPriority(existing.query_type)

\* One pass of the forEach body over uniqueEntries, a Map kept in insertion order.
\* When the new entry replaces the stored one, the combined types are written to
\* the object that was just dropped from the map.
DedupStep(uniqueEntries, entry) ==
    LET key == DedupKey(entry)
        at  == {i \in DOMAIN uniqueEntries : uniqueEntries[i].key = key}
    IN IF at = {} THEN Append(uniqueEntries, [key |-> key, value |-> entry])
       ELSE LET i == CHOOSE j \in at : TRUE
                existing == uniqueEntries[i].value
            IN IF DedupReplaces(existing, entry)
               THEN [uniqueEntries EXCEPT ![i].value = entry]
               ELSE [uniqueEntries EXCEPT
                        ![i].value.query_type = CombinedTypes(existing, entry)]

RECURSIVE DedupMap(_)
DedupMap(es) ==
    IF es = <<>> THEN <<>>
    ELSE DedupStep(DedupMap(SubSeq(es, 1, Len(es) - 1)), es[Len(es)])

RECURSIVE InsertByTimestampDescending(_, _)
InsertByTimestampDescending(s, e) ==
    IF s = <<>> THEN <<e>>
    ELSE IF Head(s).parsedTimestamp >= e.parsedTimestamp
         THEN <<Head(s)>> \o InsertByTimestampDescending(Tail(s), e)
         ELSE <<e>> \o s

\* deduplicatedEntries.sort((a, b) => b.parsedTimestamp - a.parsedTimestamp), stable
RECURSIVE SortByTimestampDescending(_)
SortByTimestampDescending(s) ==
    IF s = <<>> THEN <<>>
    ELSE InsertByTimestampDescending(SortByTimestampDescending(SubSeq(s, 1, Len(s) - 1)),
                                     s[Len(s)])

deduplicateDNSRecords(es) ==
    LET uniqueEntries == DedupMap(es)
    IN SortByTimestampDescending([i \in DOMAIN uniqueEntries |-> uniqueEntries[i].value])

(***************************************************************************)
(* Specification SpecDedup: DNS records of a few domains arrive in any     *)
(* order and are deduplicated.                                             *)
(***************************************************************************)
DedupDomains == {"g.whatsapp.net", "www.facebook.com"}
\* Two timestamps of one 30-second bucket and one of the next.
DedupTimes == {0, 10000, 40000}
QueryTypes == {"A", "AAAA", "HTTPS"}

\* Most records in the raw log.
MaxRaw == 3

AddRawEntry(d, ts, qt) ==
    /\ stats = NoStats
    /\ Len(entries) < MaxRaw
    /\ entries' = Append(entries, [domain |-> d, parsedTimestamp |-> ts, query_type |-> qt])
    /\ UNCHANGED <<windowEntries, activity, domains, concerns, stats>>

Deduplicate ==
    /\ stats = NoStats
    /\ stats' = [fn |-> "deduplicated", records |-> deduplicateDNSRecords(entries)]
    /\ UNCHANGED <<windowEntries, activity, domains, concerns, entries>>

NextDedup ==
    \/ \E d \in DedupDomains, ts \in DedupTimes, qt \in QueryTypes : AddRawEntry(d, ts, qt)
    \/ Deduplicate

SpecDedup == InitStats /\ [][NextDedup]_vars

(***************************************************************************)
(* Claims checked under SpecDedup.                                         *)
(***************************************************************************)
\* The query types of the raw entries that share a key.
TypesOfKey(key) ==
    {entries[i].query_type : i \in {j \in DOMAIN entries : DedupKey(entries[j]) = key}}

\* The record type of a retained entry: the first of its query types.
RecordType(e) == SplitTypes(e.query_type)[1]

\* C30: the output holds exactly one entry per (domain, 30-second bucket) key; the
\* entry retained for a key is an A record when the key has one, else an AAAA record
\* when it has one, in whatever order the duplicates arrive; the output is sorted by
\* timestamp descending.
C30_OneEntryPerKeyPrefersA ==
    stats.fn = "deduplicated" =>
        /\ {DedupKey(stats.records[i]) : i \in DOMAIN stats.records}
              = {DedupKey(entries[i]) : i \in DOMAIN entries}
        /\ \A i, j \in DOMAIN stats.records :
              i # j => DedupKey(stats.records[i]) # DedupKey(stats.records[j])
        /\ \A i \in DOMAIN stats.records :
              LET types == TypesOfKey(DedupKey(stats.records[i]))
              IN /\ "A" \in types => RecordType(stats.records[i]) = "A"
                 /\ ("A" \notin types /\ "AAAA" \in types)
                        => RecordType(stats.records[i]) = "AAAA"
        /\ \A i, j \in DOMAIN stats.records :
              i < j => stats.records[i].parsedTimestamp >= stats.records[j].parsedTimestamp
=============================================================================
